---- MODULE Spec2Model ----
(***************************************************************************)
(* hprof-slurp: the three-stage streaming pipeline of slurp_file.          *)
(*                                                                         *)
(*   main        slurp_file (src/src/slurp.rs)                             *)
(*   prefetcher  PrefetchReader::start           (not among the sources)   *)
(*   parser      HprofRecordStreamParser::start  (not among the sources)   *)
(*   recorder    ResultRecorder::start (src/src/result_recorder.rs)        *)
(*                                                                         *)
(* The two workers whose code is not among the sources are written from    *)
(* the design document (sections 4.1, 4.2, 5 and 7).                       *)
(*                                                                         *)
(* A file is a sequence of bytes (0..255).  A channel is a sequence, the   *)
(* oldest message first; a channel end is alive while the thread that      *)
(* owns it has not terminated.                                             *)
(***************************************************************************)
EXTENDS Integers, Sequences, FiniteSets, TLC

\* the exact size of the file header (slurp.rs:25)
FILE_HEADER_LENGTH == 31

\* size of one read of the prefetcher: 128 MiB in slurp.rs:28, scaled down
READ_BUFFER_SIZE == 12

\* tag:u8 | timestamp_delta:u32 | length:u32, the frame of a top-level record
FRAME_HEADER_LENGTH == 9

\* the longest format string tried in a header block
MaxFormatLen == 31

\* top-level tags the parser knows (UTF8, LOAD_CLASS, HEAP_DUMP_END)
KnownTags == {1, 2, 44}

(***************************************************************************)
(* Bytes                                                                   *)
(***************************************************************************)
Rep(b, n) == [i \in 1..n |-> b]

Take(s, n) == SubSeq(s, 1, IF n < Len(s) THEN n ELSE Len(s))

Drop(s, n) == SubSeq(s, n + 1, Len(s))

IsPrefix(s, t) == Len(s) <= Len(t) /\ SubSeq(t, 1, Len(s)) = s

\* big-endian u32
be_u32(s) == s[1] * 16777216 + s[2] * 65536 + s[3] * 256 + s[4]

to_be_u32(v) == <<(v \div 16777216) % 256, (v \div 65536) % 256, (v \div 256) % 256, v % 256>>

\* index of the first zero byte of s, 0 when there is none
RECURSIVE FirstNul(_, _)
FirstNul(s, i) ==
    IF i > Len(s) THEN 0
    ELSE IF s[i] = 0 THEN i
    ELSE FirstNul(s, i + 1)

(***************************************************************************)
(* Inputs                                                                  *)
(***************************************************************************)
\* one top-level record on the wire
Frame(tag, body) == <<tag>> \o <<0, 0, 0, 0>> \o to_be_u32(Len(body)) \o body

\* the id_size fields tried: 8, 4, 0, 16, and two values whose low byte is 8 or 4
IdSizeBytes ==
    { <<0, 0, 0, 8>>, <<0, 0, 0, 4>>, <<0, 0, 0, 0>>, <<0, 0, 0, 16>>,
      <<0, 0, 1, 8>>, <<1, 0, 0, 4>> }

\* 31 bytes: a format string of p bytes, its terminator, id_size, timestamp
\* and whatever follows, cut at 31 bytes
HeaderBlock(p, idb) ==
    Take(Rep(74, p) \o <<0>> \o idb \o Rep(1, 8) \o Rep(9, FILE_HEADER_LENGTH),
         FILE_HEADER_LENGTH)

ValidHeaderBlock == HeaderBlock(18, <<0, 0, 0, 8>>)

HeaderBlocks == { HeaderBlock(p, idb) : p \in 0..MaxFormatLen, idb \in IdSizeBytes }

\* files that end inside the header
ShortFiles == { Take(ValidHeaderBlock, n) : n \in {0, 18, 30} }

Bodies ==
    { <<>>,
      Frame(1, <<>>) \o Frame(2, <<>>) \o Frame(1, <<>>) \o Frame(44, <<>>),
      Frame(1, <<5, 6, 7>>) \o Frame(2, <<>>),
      Frame(2, Rep(7, 30)) \o Frame(44, <<>>),
      Frame(44, <<1, 0, 0, 0, 0, 0, 0, 0, 0, 2>>) \o Frame(1, <<>>) \o <<2, 0, 0, 0, 0>>,
      Frame(1, <<5, 6>>) \o <<1>>,
      Frame(2, <<>>) \o Frame(255, <<>>),
      Frame(1, <<>>) \o <<1, 0, 0, 0, 0, 0, 0, 0, 9, 3>> }

Files == ShortFiles \cup { h \o b : h \in HeaderBlocks, b \in Bodies }

(***************************************************************************)
(* The header                                                              *)
(***************************************************************************)
\* null-terminated format string, id_size:u32, timestamp:u64; the bytes left
parse_file_header(buf) ==
    LET nul == FirstNul(buf, 1)
    IN  IF nul = 0 \/ Len(buf) - nul < 12
        THEN [ok |-> FALSE, rest |-> <<>>, format |-> <<>>, size_pointers |-> 0]
        ELSE [ok |-> TRUE,
              rest |-> Drop(buf, nul + 12),
              format |-> Take(buf, nul - 1),
              size_pointers |-> be_u32(SubSeq(buf, nul + 1, nul + 4))]

NoHeader == [format |-> <<>>, size_pointers |-> 0]

\* slurp_header with the trailing-bytes check made before the id_size checks
slurp_header_rest_first(f) ==
    IF Len(f) < FILE_HEADER_LENGTH
    THEN [err |-> "StdIoError", header |-> NoHeader, read |-> Len(f)]
    ELSE LET p == parse_file_header(Take(f, FILE_HEADER_LENGTH))
             id_size == p.size_pointers
             e == IF ~p.ok THEN "InvalidHprofFile"
                  ELSE IF p.rest # <<>> THEN "InvalidHeaderSize"
                  ELSE IF id_size # 4 /\ id_size # 8 THEN "InvalidIdSize"
                  ELSE IF id_size = 4 THEN "UnsupportedIdSize"
                  ELSE "none"
         IN  [err |-> e,
              header |-> IF e = "none"
                         THEN [format |-> p.format, size_pointers |-> id_size]
                         ELSE NoHeader,
              read |-> FILE_HEADER_LENGTH]

\* slurp_header on a reader at offset 0 of f: the result and the bytes read
slurp_header(f) ==
    IF Len(f) < FILE_HEADER_LENGTH
    THEN [err |-> "StdIoError", header |-> NoHeader, read |-> Len(f)]
    ELSE LET p == parse_file_header(Take(f, FILE_HEADER_LENGTH))
             id_size == p.size_pointers
             e == IF ~p.ok THEN "InvalidHprofFile"
                  ELSE IF id_size # 4 /\ id_size # 8 THEN "InvalidIdSize"
                  ELSE IF id_size = 4 THEN "UnsupportedIdSize"
                  ELSE IF p.rest # <<>> THEN "InvalidHeaderSize"
                  ELSE "none"
         IN  [err |-> e,
              header |-> IF e = "none"
                         THEN [format |-> p.format, size_pointers |-> id_size]
                         ELSE NoHeader,
              read |-> FILE_HEADER_LENGTH]

(***************************************************************************)
(* The record stream parser's framing                                      *)
(***************************************************************************)
Record(tag, body) == [tag |-> tag, body |-> body]

\* Drain the complete records at the front of buf, whose first byte is the
\* byte at offset off of a file of flen bytes.  A frame is decoded once its
\* nine header bytes are there; the bytes of an incomplete record stay.
RECURSIVE parse_streaming(_, _, _, _)
parse_streaming(buf, off, flen, acc) ==
    IF Len(buf) < FRAME_HEADER_LENGTH
    THEN [err |-> "none", records |-> acc, rest |-> buf]
    ELSE LET tag == buf[1]
             length == be_u32(SubSeq(buf, 6, 9))
             size == FRAME_HEADER_LENGTH + length
         IN  IF tag \notin KnownTags
             THEN [err |-> "UnknownTag", records |-> acc, rest |-> buf]
             ELSE IF off + size > flen
             THEN [err |-> "CorruptLength", records |-> acc, rest |-> buf]
             ELSE IF Len(buf) < size
             THEN [err |-> "none", records |-> acc, rest |-> buf]
             ELSE parse_streaming(Drop(buf, size), off + size, flen,
                      Append(acc, Record(tag, SubSeq(buf, FRAME_HEADER_LENGTH + 1, size))))

\* the carry is lost: the chunk alone
WithCarryDropped(carry, chunk) == chunk

\* carry || chunk
WithCarry(carry, chunk) == carry \o chunk

(***************************************************************************)
(* The recorder's fold                                                     *)
(***************************************************************************)
Reverse(s) == [i \in 1..Len(s) |-> s[Len(s) + 1 - i]]

\* the records of one batch folded last to first
record_records_reversed(folded, records) == folded \o Reverse(records)

\* record_records: the records of one batch are folded in index order.  The
\* recorder's aggregation is a function of the records folded so far, in
\* order; that sequence stands for it.
record_records(folded, records) == folded \o records

(***************************************************************************)
(* Records, as the parser hands them to the recorder                       *)
(***************************************************************************)
\* a HashMap is a function on the finite set of its keys
EmptyMap == [k \in {} |-> 0]

\* HashMap::insert: the value of the key is replaced
insert(m, k, v) == [x \in (DOMAIN m) \cup {k} |-> IF x = k THEN v ELSE m[x]]

\* HashMap::entry(k).or_insert_with(|| v): an entry that exists is kept
or_insert_with(m, k, v) == IF k \in DOMAIN m THEN m ELSE insert(m, k, v)

\* enum FieldType and FieldType::to_u64
FieldTypes == {"Object", "Bool", "Char", "Float", "Double", "Byte", "Short", "Int", "Long"}

to_u64(t) ==
    CASE t = "Object" -> 2
      [] t = "Bool" -> 4
      [] t = "Char" -> 5
      [] t = "Float" -> 6
      [] t = "Double" -> 7
      [] t = "Byte" -> 8
      [] t = "Short" -> 9
      [] t = "Int" -> 10
      [] t = "Long" -> 11

FieldInfo(name_id, field_type) == [name_id |-> name_id, field_type |-> field_type]

ClassDumpFields(class_object_id, super_class_object_id, instance_size, instance_fields) ==
    [class_object_id |-> class_object_id,
     stack_trace_serial_number |-> 1,
     super_class_object_id |-> super_class_object_id,
     instance_size |-> instance_size,
     const_fields |-> <<>>,
     static_fields |-> <<>>,
     instance_fields |-> instance_fields]

\* the top-level record kinds that carry no data the recorder keeps
MetaKinds ==
    {"UnloadClass", "AllocationSites", "HeapSummary", "ControlSettings", "CpuSamples",
     "HeapDumpEnd", "HeapDumpStart"}

\* the nine root kinds of GcRecord
RootKinds ==
    {"RootUnknown", "RootThreadObject", "RootJniGlobal", "RootJniLocal", "RootJavaFrame",
     "RootNativeStack", "RootStickyClass", "RootThreadBlock", "RootMonitorUsed"}

Utf8String(id, str) == [kind |-> "Utf8String", id |-> id, str |-> str]

LoadClassData(serial_number, class_object_id, class_name_id) ==
    [serial_number |-> serial_number,
     class_object_id |-> class_object_id,
     stack_trace_serial_number |-> 1,
     class_name_id |-> class_name_id]

LoadClass(load_class_data) == [kind |-> "LoadClass", data |-> load_class_data]

StackFrameData(stack_frame_id) ==
    [stack_frame_id |-> stack_frame_id,
     method_name_id |-> 1,
     method_signature_id |-> 1,
     source_file_name_id |-> 1,
     class_serial_number |-> 1,
     line_number |-> 1]

StackFrame(stack_frame_data) == [kind |-> "StackFrame", data |-> stack_frame_data]

StackTraceData(serial_number, stack_frame_ids) ==
    [serial_number |-> serial_number,
     thread_serial_number |-> 1,
     number_of_frames |-> Len(stack_frame_ids),
     stack_frame_ids |-> stack_frame_ids]

StackTrace(stack_trace_data) == [kind |-> "StackTrace", data |-> stack_trace_data]

ThreadStartData(thread_serial_number, thread_object_id) ==
    [thread_serial_number |-> thread_serial_number,
     thread_object_id |-> thread_object_id,
     stack_trace_serial_number |-> 1,
     thread_name_id |-> 1,
     thread_group_name_id |-> 1,
     thread_group_parent_name_id |-> 1]

StartThread(thread_start_data) == [kind |-> "StartThread", data |-> thread_start_data]

ThreadEndData(thread_serial_number) == [thread_serial_number |-> thread_serial_number]

EndThread(thread_serial_number) ==
    [kind |-> "EndThread", thread_serial_number |-> thread_serial_number]

\* UnloadClass, AllocationSites, HeapSummary, ControlSettings, CpuSamples,
\* HeapDumpEnd, HeapDumpStart
Meta(kind) == [kind |-> kind]

GcSegment(gc_record) == [kind |-> "GcSegment", gc |-> gc_record]

Root(kind, object_id) == [kind |-> kind, object_id |-> object_id]

InstanceDump(object_id, class_object_id, bytes_ref) ==
    [kind |-> "InstanceDump",
     object_id |-> object_id,
     stack_trace_serial_number |-> 1,
     class_object_id |-> class_object_id,
     data_size |-> Len(bytes_ref),
     bytes_ref |-> bytes_ref]

ObjectArrayDump(object_id, array_class_id, number_of_elements, bytes_ref) ==
    [kind |-> "ObjectArrayDump",
     object_id |-> object_id,
     stack_trace_serial_number |-> 1,
     number_of_elements |-> number_of_elements,
     array_class_id |-> array_class_id,
     bytes_ref |-> bytes_ref]

PrimitiveArrayDump(object_id, element_type, number_of_elements, bytes_ref) ==
    [kind |-> "PrimitiveArrayDump",
     object_id |-> object_id,
     stack_trace_serial_number |-> 1,
     number_of_elements |-> number_of_elements,
     element_type |-> element_type,
     bytes_ref |-> bytes_ref]

ClassDump(class_dump_fields) == [kind |-> "ClassDump", fields |-> class_dump_fields]

(***************************************************************************)
(* ResultRecorder: the aggregation                                         *)
(***************************************************************************)
\* the range of an i32
I32_MAX == 2147483647
I32_MIN == (-2147483647) - 1

\* c += 1 on an i32 in a build without overflow checks: it wraps
wrapping_inc(c) == IF c = I32_MAX THEN I32_MIN ELSE c + 1

\* the tag counters of the recorder
TagCounters ==
    {"classes_unloaded", "stack_frames", "stack_traces", "start_threads", "end_threads",
     "heap_summaries", "heap_dumps", "allocation_sites", "control_settings", "cpu_samples"}

\* the counters of the GC sub-record kinds
GcCounters ==
    {"heap_dump_segments_gc_root_unknown", "heap_dump_segments_gc_root_thread_object",
     "heap_dump_segments_gc_root_jni_global", "heap_dump_segments_gc_root_jni_local",
     "heap_dump_segments_gc_root_java_frame", "heap_dump_segments_gc_root_native_stack",
     "heap_dump_segments_gc_root_sticky_class", "heap_dump_segments_gc_root_thread_block",
     "heap_dump_segments_gc_root_monitor_used", "heap_dump_segments_gc_object_array_dump",
     "heap_dump_segments_gc_instance_dump", "heap_dump_segments_gc_primitive_array_dump",
     "heap_dump_segments_gc_class_dump"}

\* every i32 field of the recorder
I32Counters == TagCounters \cup {"heap_dump_segments_all_sub_records"} \cup GcCounters

\* ResultRecorder::new(id_size)
ResultRecorder_new(id_size) ==
    [id_size |-> id_size,
     classes_unloaded |-> 0,
     stack_frames |-> 0,
     stack_traces |-> 0,
     start_threads |-> 0,
     end_threads |-> 0,
     heap_summaries |-> 0,
     heap_dumps |-> 0,
     allocation_sites |-> 0,
     control_settings |-> 0,
     cpu_samples |-> 0,
     heap_dump_segments_all_sub_records |-> 0,
     heap_dump_segments_gc_root_unknown |-> 0,
     heap_dump_segments_gc_root_thread_object |-> 0,
     heap_dump_segments_gc_root_jni_global |-> 0,
     heap_dump_segments_gc_root_jni_local |-> 0,
     heap_dump_segments_gc_root_java_frame |-> 0,
     heap_dump_segments_gc_root_native_stack |-> 0,
     heap_dump_segments_gc_root_sticky_class |-> 0,
     heap_dump_segments_gc_root_thread_block |-> 0,
     heap_dump_segments_gc_root_monitor_used |-> 0,
     heap_dump_segments_gc_object_array_dump |-> 0,
     heap_dump_segments_gc_primitive_array_dump |-> 0,
     heap_dump_segments_gc_instance_dump |-> 0,
     heap_dump_segments_gc_class_dump |-> 0,
     utf8_strings_by_id |-> EmptyMap,
     class_data |-> <<>>,
     class_data_by_id |-> EmptyMap,
     class_data_by_serial_number |-> EmptyMap,
     classes_single_instance_size_by_id |-> EmptyMap,
     classes_all_instance_total_size_by_id |-> EmptyMap,
     primitive_array_counters |-> EmptyMap,
     object_array_counters |-> EmptyMap,
     classes_dump |-> EmptyMap,
     stack_trace_by_serial_number |-> EmptyMap,
     stack_frame_by_id |-> EmptyMap,
     dump_instances |-> <<>>,
     dump_primitive_array_dump |-> <<>>,
     instances |-> EmptyMap,
     load_class |-> EmptyMap,
     thread_start |-> EmptyMap,
     thread_end |-> EmptyMap,
     dump_object_array_dump |-> <<>>]

\* self.<counter> += 1
bump(self, counter) == [self EXCEPT ![counter] = wrapping_inc(@)]

\* ClassInfo::new
ClassInfo_new(super_class_object_id, instance_size) ==
    [super_class_object_id |-> super_class_object_id, instance_size |-> instance_size]

\* ClassInstanceCounter::empty, ClassInstanceCounter::add_instance
ClassInstanceCounter_empty == [number_of_instances |-> 0]

add_instance(counter) == [counter EXCEPT !.number_of_instances = @ + 1]

\* ArrayCounter::empty, ArrayCounter::add_elements_from_array
ArrayCounter_empty ==
    [number_of_arrays |-> 0, max_size_seen |-> 0, total_number_of_elements |-> 0]

\* an ArrayCounter whose max_size_seen is the size of the last array
add_elements_from_array_max_is_last(counter, elements) ==
    [number_of_arrays |-> counter.number_of_arrays + 1,
     total_number_of_elements |-> counter.total_number_of_elements + elements,
     max_size_seen |-> elements]

add_elements_from_array(counter, elements) ==
    [number_of_arrays |-> counter.number_of_arrays + 1,
     total_number_of_elements |-> counter.total_number_of_elements + elements,
     max_size_seen |-> IF elements > counter.max_size_seen
                       THEN elements
                       ELSE counter.max_size_seen]

\* Utf8String with entry(id).or_insert: the first string of an id is kept
record_utf8_string_first_wins(self, record) ==
    [self EXCEPT !.utf8_strings_by_id = or_insert_with(@, record.id, record.str)]

\* Utf8String { id, str } => self.utf8_strings_by_id.insert(*id, mem::take(str))
record_utf8_string(self, record) ==
    [self EXCEPT !.utf8_strings_by_id = insert(@, record.id, record.str)]

\* LoadClass(load_class_data) => self.load_class.insert(class_object_id, ..)
record_load_class(self, record) ==
    [self EXCEPT !.load_class = insert(@, record.data.class_object_id, record.data)]

\* StackFrame(stack_frame_data)
record_stack_frame(self, record) ==
    [bump(self, "stack_frames") EXCEPT
        !.stack_frame_by_id = insert(@, record.data.stack_frame_id, record.data)]

\* StackTrace(stack_trace_data)
record_stack_trace(self, record) ==
    [bump(self, "stack_traces") EXCEPT
        !.stack_trace_by_serial_number = insert(@, record.data.serial_number, record.data)]

\* StartThread { .. } => self.thread_start.insert(*thread_serial_number, ..)
record_start_thread(self, record) ==
    [self EXCEPT !.thread_start = insert(@, record.data.thread_serial_number, record.data)]

\* EndThread { thread_serial_number } => self.thread_end.insert(..)
record_end_thread(self, record) ==
    [self EXCEPT !.thread_end = insert(@, record.thread_serial_number,
                                       ThreadEndData(record.thread_serial_number))]

\* arms in which UnloadClass also forgets the classes loaded
record_meta_unload_forgets_classes(self, record) ==
    CASE record.kind = "UnloadClass" ->
             [bump(self, "classes_unloaded") EXCEPT !.load_class = EmptyMap]
      [] record.kind = "AllocationSites" -> bump(self, "allocation_sites")
      [] record.kind = "HeapSummary" -> bump(self, "heap_summaries")
      [] record.kind = "ControlSettings" -> bump(self, "control_settings")
      [] record.kind = "CpuSamples" -> bump(self, "cpu_samples")
      [] record.kind = "HeapDumpStart" -> bump(self, "heap_dumps")
      [] record.kind = "HeapDumpEnd" -> self

\* the arms of the records without data: HeapDumpEnd { .. } => ()
record_meta(self, record) ==
    CASE record.kind = "UnloadClass" -> bump(self, "classes_unloaded")
      [] record.kind = "AllocationSites" -> bump(self, "allocation_sites")
      [] record.kind = "HeapSummary" -> bump(self, "heap_summaries")
      [] record.kind = "ControlSettings" -> bump(self, "control_settings")
      [] record.kind = "CpuSamples" -> bump(self, "cpu_samples")
      [] record.kind = "HeapDumpStart" -> bump(self, "heap_dumps")
      [] record.kind = "HeapDumpEnd" -> self

\* the counter of a root kind
root_counter(kind) ==
    CASE kind = "RootUnknown" -> "heap_dump_segments_gc_root_unknown"
      [] kind = "RootThreadObject" -> "heap_dump_segments_gc_root_thread_object"
      [] kind = "RootJniGlobal" -> "heap_dump_segments_gc_root_jni_global"
      [] kind = "RootJniLocal" -> "heap_dump_segments_gc_root_jni_local"
      [] kind = "RootJavaFrame" -> "heap_dump_segments_gc_root_java_frame"
      [] kind = "RootNativeStack" -> "heap_dump_segments_gc_root_native_stack"
      [] kind = "RootStickyClass" -> "heap_dump_segments_gc_root_sticky_class"
      [] kind = "RootThreadBlock" -> "heap_dump_segments_gc_root_thread_block"
      [] kind = "RootMonitorUsed" -> "heap_dump_segments_gc_root_monitor_used"

\* an InstanceDump arm that retains the record only when a ClassDump of its
\* class was folded before it
record_instance_dump_class_first(self, gc_record) ==
    LET counters == self.classes_all_instance_total_size_by_id
        class_object_id == gc_record.class_object_id
        counted == or_insert_with(counters, class_object_id, ClassInstanceCounter_empty)
    IN  [bump(self, "heap_dump_segments_gc_instance_dump") EXCEPT
            !.classes_all_instance_total_size_by_id =
                insert(counted, class_object_id, add_instance(counted[class_object_id])),
            !.dump_instances =
                IF class_object_id \in DOMAIN self.classes_dump
                THEN Append(@, gc_record)
                ELSE @]

\* an InstanceDump arm that counts the instance only when its class was dumped
record_instance_dump_known_class_only(self, gc_record) ==
    LET counters == self.classes_all_instance_total_size_by_id
        class_object_id == gc_record.class_object_id
        counted == or_insert_with(counters, class_object_id, ClassInstanceCounter_empty)
    IN  [bump(self, "heap_dump_segments_gc_instance_dump") EXCEPT
            !.classes_all_instance_total_size_by_id =
                IF class_object_id \in DOMAIN self.classes_dump
                THEN insert(counted, class_object_id, add_instance(counted[class_object_id]))
                ELSE counters,
            !.dump_instances = Append(@, gc_record)]

\* GcRecord::InstanceDump { .. }
record_instance_dump(self, gc_record) ==
    LET counters == self.classes_all_instance_total_size_by_id
        class_object_id == gc_record.class_object_id
        counted == or_insert_with(counters, class_object_id, ClassInstanceCounter_empty)
    IN  [bump(self, "heap_dump_segments_gc_instance_dump") EXCEPT
            !.classes_all_instance_total_size_by_id =
                insert(counted, class_object_id, add_instance(counted[class_object_id])),
            !.dump_instances = Append(@, gc_record)]

\* GcRecord::ObjectArrayDump { .. }
record_object_array_dump(self, gc_record) ==
    LET array_class_id == gc_record.array_class_id
        counted == or_insert_with(self.object_array_counters, array_class_id, ArrayCounter_empty)
    IN  [bump(self, "heap_dump_segments_gc_object_array_dump") EXCEPT
            !.object_array_counters =
                insert(counted, array_class_id,
                       add_elements_from_array(counted[array_class_id],
                                               gc_record.number_of_elements)),
            !.dump_object_array_dump = Append(@, gc_record)]

\* GcRecord::PrimitiveArrayDump { .. }
record_primitive_array_dump(self, gc_record) ==
    LET element_type == gc_record.element_type
        counted == or_insert_with(self.primitive_array_counters, element_type, ArrayCounter_empty)
    IN  [bump(self, "heap_dump_segments_gc_primitive_array_dump") EXCEPT
            !.primitive_array_counters =
                insert(counted, element_type,
                       add_elements_from_array(counted[element_type],
                                               gc_record.number_of_elements)),
            !.dump_primitive_array_dump = Append(@, gc_record)]

\* a ClassDump arm that files the size entry under the super class
record_class_dump_size_under_super(self, gc_record) ==
    LET class_dump_fields == gc_record.fields
        class_object_id == class_dump_fields.class_object_id
    IN  [bump(self, "heap_dump_segments_gc_class_dump") EXCEPT
            !.classes_dump = insert(@, class_object_id, class_dump_fields),
            !.classes_single_instance_size_by_id =
                or_insert_with(@, class_dump_fields.super_class_object_id,
                               ClassInfo_new(class_dump_fields.super_class_object_id,
                                             class_dump_fields.instance_size))]

\* a ClassDump arm that replaces the size entry of the class as well
record_class_dump_size_replaced(self, gc_record) ==
    LET class_dump_fields == gc_record.fields
        class_object_id == class_dump_fields.class_object_id
    IN  [bump(self, "heap_dump_segments_gc_class_dump") EXCEPT
            !.classes_dump = insert(@, class_object_id, class_dump_fields),
            !.classes_single_instance_size_by_id =
                insert(@, class_object_id,
                       ClassInfo_new(class_dump_fields.super_class_object_id,
                                     class_dump_fields.instance_size))]

\* GcRecord::ClassDump(class_dump_fields)
record_class_dump(self, gc_record) ==
    LET class_dump_fields == gc_record.fields
        class_object_id == class_dump_fields.class_object_id
    IN  [bump(self, "heap_dump_segments_gc_class_dump") EXCEPT
            !.classes_dump = insert(@, class_object_id, class_dump_fields),
            !.classes_single_instance_size_by_id =
                or_insert_with(@, class_object_id,
                               ClassInfo_new(class_dump_fields.super_class_object_id,
                                             class_dump_fields.instance_size))]

\* match gc_record { .. }
record_gc_record(self, gc_record) ==
    CASE gc_record.kind \in RootKinds -> bump(self, root_counter(gc_record.kind))
      [] gc_record.kind = "InstanceDump" -> record_instance_dump(self, gc_record)
      [] gc_record.kind = "ObjectArrayDump" -> record_object_array_dump(self, gc_record)
      [] gc_record.kind = "PrimitiveArrayDump" -> record_primitive_array_dump(self, gc_record)
      [] gc_record.kind = "ClassDump" -> record_class_dump(self, gc_record)

\* GcSegment without the bump of the total
record_gc_segment_total_forgotten(self, gc_record) == record_gc_record(self, gc_record)

\* GcSegment(gc_record) => { self.heap_dump_segments_all_sub_records += 1; match .. }
record_gc_segment(self, gc_record) ==
    record_gc_record(bump(self, "heap_dump_segments_all_sub_records"), gc_record)

\* the body of the closure of record_records: match record { .. }
record_record(self, record) ==
    CASE record.kind = "Utf8String" -> record_utf8_string(self, record)
      [] record.kind = "LoadClass" -> record_load_class(self, record)
      [] record.kind = "StackFrame" -> record_stack_frame(self, record)
      [] record.kind = "StackTrace" -> record_stack_trace(self, record)
      [] record.kind = "StartThread" -> record_start_thread(self, record)
      [] record.kind = "EndThread" -> record_end_thread(self, record)
      [] record.kind \in MetaKinds -> record_meta(self, record)
      [] record.kind = "GcSegment" -> record_gc_segment(self, record.gc)

\* an i32 counter of before was at its maximum and the step incremented it
Overflowed(before, after) ==
    \E c \in I32Counters : before[c] = I32_MAX /\ after[c] = I32_MIN

\* a fold that takes the records of a batch from the last to the first
RECURSIVE fold_records_last_first(_, _, _)
fold_records_last_first(self, records, overflow_checks) ==
    IF records = <<>>
    THEN [recorder |-> self, panicked |-> FALSE]
    ELSE LET next == record_record(self, records[Len(records)])
         IN  IF overflow_checks /\ Overflowed(self, next)
             THEN [recorder |-> self, panicked |-> TRUE]
             ELSE fold_records_last_first(next, SubSeq(records, 1, Len(records) - 1),
                                          overflow_checks)

\* a fold that takes the first record of a batch and leaves the rest
fold_records_first_of_batch(self, records, overflow_checks) ==
    IF records = <<>>
    THEN [recorder |-> self, panicked |-> FALSE]
    ELSE LET next == record_record(self, Head(records))
         IN  IF overflow_checks /\ Overflowed(self, next)
             THEN [recorder |-> self, panicked |-> TRUE]
             ELSE [recorder |-> next, panicked |-> FALSE]

\* records.iter_mut().for_each(..) on the aggregation: each record in index
\* order.  With overflow checks (a debug build) an increment of an i32 at its
\* maximum panics and the fold stops there; without them it wraps.
RECURSIVE fold_records(_, _, _)
fold_records(self, records, overflow_checks) ==
    IF records = <<>>
    THEN [recorder |-> self, panicked |-> FALSE]
    ELSE LET next == record_record(self, Head(records))
         IN  IF overflow_checks /\ Overflowed(self, next)
             THEN [recorder |-> self, panicked |-> TRUE]
             ELSE fold_records(next, Tail(records), overflow_checks)

(***************************************************************************)
(* Materialization: parse_instance                                         *)
(***************************************************************************)
\* the width of an identifier in an accepted dump
ID_SIZE == 8

\* bytes of a value of a field type
size_of(field_type) ==
    CASE field_type \in {"Byte", "Bool"} -> 1
      [] field_type \in {"Char", "Short"} -> 2
      [] field_type \in {"Float", "Int"} -> 4
      [] field_type \in {"Double", "Long"} -> 8
      [] field_type = "Object" -> ID_SIZE

\* big-endian digits appended to acc
RECURSIVE be_acc(_, _)
be_acc(acc, s) == IF s = <<>> THEN acc ELSE be_acc(acc * 256 + Head(s), Tail(s))

\* big-endian unsigned and two's-complement signed integers
be_unsigned(s) == be_acc(0, s)

be_signed(s) == be_acc(IF Head(s) >= 128 THEN Head(s) - 256 ELSE Head(s), Tail(s))

\* the scalar of a field type held in exactly size_of(field_type) bytes; a
\* Float or Double is held as its IEEE-754 bit pattern
decode_scalar(field_type, s) ==
    CASE field_type = "Bool" -> s[1] # 0
      [] field_type \in {"Byte", "Short", "Int", "Long"} -> be_signed(s)
      [] field_type \in {"Char", "Object", "Float", "Double"} -> be_unsigned(s)

FieldValue(field_type, v) == [type |-> field_type, v |-> v]

ArrayValue(element_type, vs) == [type |-> element_type, v |-> vs]

Single(value) == [kind |-> "Single", value |-> value]

Array(value) == [kind |-> "Array", value |-> value]

\* parse_field_value(field_type)(bytes): the value and the bytes left, or an
\* error when fewer than size_of(field_type) bytes are there
parse_field_value(field_type, bytes) ==
    IF Len(bytes) < size_of(field_type)
    THEN [ok |-> FALSE, rest |-> bytes, value |-> FieldValue(field_type, 0)]
    ELSE [ok |-> TRUE,
          rest |-> Drop(bytes, size_of(field_type)),
          value |-> FieldValue(field_type,
                               decode_scalar(field_type, Take(bytes, size_of(field_type))))]

\* parse_array_value(element_type, number_of_elements)(bytes)
RECURSIVE parse_array_elements(_, _, _, _)
parse_array_elements(element_type, n, bytes, acc) ==
    IF n = 0
    THEN [ok |-> TRUE, rest |-> bytes, value |-> ArrayValue(element_type, acc)]
    ELSE LET one == parse_field_value(element_type, bytes)
         IN  IF ~one.ok
             THEN [ok |-> FALSE, rest |-> bytes, value |-> ArrayValue(element_type, <<>>)]
             ELSE parse_array_elements(element_type, n - 1, one.rest, Append(acc, one.value.v))

parse_array_value(element_type, number_of_elements, bytes) ==
    parse_array_elements(element_type, number_of_elements, bytes, <<>>)

\* the loop of parse_instance_data over class.instance_fields[i..]: data_pt
\* are the bytes left, parser(data_pt).unwrap() panics on an error
RECURSIVE parse_fields(_, _, _, _)
parse_fields(instance_fields, i, data_pt, fields_with_name) ==
    IF i > Len(instance_fields)
    THEN [panicked |-> FALSE, fields |-> fields_with_name, rest |-> data_pt]
    ELSE LET field == instance_fields[i]
             one == parse_field_value(field.field_type, data_pt)
         IN  IF ~one.ok
             THEN [panicked |-> TRUE, fields |-> fields_with_name, rest |-> data_pt]
             ELSE parse_fields(instance_fields, i + 1, one.rest,
                               Append(fields_with_name, <<field.name_id, Single(one.value)>>))

\* parse_instance_data with data_pt never advanced: every field is decoded
\* from the first bytes
parse_instance_data_pt_kept(class, data_bytes, classes_dump) ==
    LET one(i) == parse_field_value(class.instance_fields[i].field_type, data_bytes)
        n == Len(class.instance_fields)
    IN  [panicked |-> \E i \in 1..n : ~one(i).ok,
         fields |-> [i \in 1..n |-> <<class.instance_fields[i].name_id, Single(one(i).value)>>],
         super_fields |-> <<>>]

\* parse_instance_data(class, data_bytes, _, _classes_dump): the own fields
\* in declared order; the walk up the super classes is commented out, so
\* super_fields_with_name stays empty
parse_instance_data(class, data_bytes, classes_dump) ==
    LET own == parse_fields(class.instance_fields, 1, data_bytes, <<>>)
    IN  [panicked |-> own.panicked, fields |-> own.fields, super_fields |-> <<>>]

Instance(object_id, stack_trace_serial_number, class_object_id, data_size, fields, super_fields) ==
    [object_id |-> object_id,
     stack_trace_serial_number |-> stack_trace_serial_number,
     class_object_id |-> class_object_id,
     data_size |-> data_size,
     fields |-> fields,
     super_fields |-> super_fields]

\* what the closure of one parallel pass yields for one retained record
None == [some |-> FALSE, panicked |-> FALSE, object_id |-> 0, instance |-> <<>>]

Some(object_id, instance) ==
    [some |-> TRUE, panicked |-> FALSE, object_id |-> object_id, instance |-> instance]

Unwound == [some |-> FALSE, panicked |-> TRUE, object_id |-> 0, instance |-> <<>>]

\* the closure over dump_instances without the lookup of the class: a record
\* of an unknown class is materialized with no field
materialize_instance_dump_unchecked(ele, value) ==
    LET class == IF ele.class_object_id \in DOMAIN value.classes_dump
                 THEN value.classes_dump[ele.class_object_id]
                 ELSE ClassDumpFields(ele.class_object_id, 0, 0, <<>>)
        ab == parse_instance_data(class, ele.bytes_ref, value.classes_dump)
    IN  IF ab.panicked
        THEN Unwound
        ELSE Some(ele.object_id,
                  Instance(ele.object_id, ele.stack_trace_serial_number,
                           ele.class_object_id, ele.data_size, ab.fields, ab.super_fields))

\* the closure over dump_instances: if let Some(class) =
\* value.classes_dump.get(&class_object_id) { .. } else { None }
materialize_instance_dump(ele, value) ==
    IF ele.class_object_id \in DOMAIN value.classes_dump
    THEN LET class == value.classes_dump[ele.class_object_id]
             ab == parse_instance_data(class, ele.bytes_ref, value.classes_dump)
         IN  IF ab.panicked
             THEN Unwound
             ELSE Some(ele.object_id,
                       Instance(ele.object_id, ele.stack_trace_serial_number,
                                ele.class_object_id, ele.data_size, ab.fields,
                                ab.super_fields))
    ELSE None

\* the closure over dump_primitive_array_dump with data_size taken from
\* the number of elements
materialize_primitive_array_dump_sized_by_count(ele, value) ==
    LET parsed == parse_array_value(ele.element_type, ele.number_of_elements, ele.bytes_ref)
    IN  IF ~parsed.ok
        THEN Unwound
        ELSE Some(ele.object_id,
                  Instance(ele.object_id, ele.stack_trace_serial_number,
                           to_u64(ele.element_type), ele.number_of_elements,
                           << <<0, Array(parsed.value)>> >>, <<>>))

\* the closure over dump_primitive_array_dump
materialize_primitive_array_dump(ele, value) ==
    LET parsed == parse_array_value(ele.element_type, ele.number_of_elements, ele.bytes_ref)
    IN  IF ~parsed.ok
        THEN Unwound
        ELSE Some(ele.object_id,
                  Instance(ele.object_id, ele.stack_trace_serial_number,
                           to_u64(ele.element_type), Len(ele.bytes_ref),
                           << <<0, Array(parsed.value)>> >>, <<>>))

\* the closure over dump_object_array_dump
materialize_object_array_dump(ele, value) ==
    LET parsed == parse_array_value("Object", ele.number_of_elements, ele.bytes_ref)
    IN  IF ~parsed.ok
        THEN Unwound
        ELSE Some(ele.object_id,
                  Instance(ele.object_id, ele.stack_trace_serial_number,
                           ele.array_class_id, Len(ele.bytes_ref),
                           << <<0, Array(parsed.value)>> >>, <<>>))

\* .filter(|e| e.is_some()).map(|e| e.unwrap()).collect() into a HashMap
RECURSIVE collect(_, _)
collect(results, acc) ==
    IF results = <<>> THEN acc
    ELSE LET e == Head(results)
         IN  collect(Tail(results), IF e.some THEN insert(acc, e.object_id, e.instance) ELSE acc)

\* an extend that keeps the entry a key already has
extend_first_wins(map, other) ==
    [k \in (DOMAIN map) \cup (DOMAIN other) |-> IF k \in DOMAIN map THEN map[k] ELSE other[k]]

\* HashMap::extend: the entries of other are inserted
extend(map, other) ==
    [k \in (DOMAIN map) \cup (DOMAIN other) |-> IF k \in DOMAIN other THEN other[k] ELSE map[k]]

\* a HeapCounter whose count of ClassDumps is the number of classes dumped
HeapCounter_class_dumps_from_map(value) ==
    [c \in {"id_size"} \cup I32Counters |->
        IF c = "heap_dump_segments_gc_class_dump"
        THEN Cardinality(DOMAIN value.classes_dump)
        ELSE value[c]]

\* a HeapCounter whose heap_dumps is taken from id_size
HeapCounter_id_size_as_heap_dumps(value) ==
    [c \in {"id_size"} \cup I32Counters |->
        IF c = "heap_dumps" THEN value.id_size ELSE value[c]]

\* HeapCounter { id_size: value.id_size, .. }
HeapCounter(value) == [c \in {"id_size"} \cup I32Counters |-> value[c]]

NoHeap == [panicked |-> TRUE, heap |-> <<>>]

\* a parse_instance that merges the three maps in the order object arrays,
\* primitive arrays, instances
parse_instance_instances_last(value) ==
    LET instance ==
            [i \in 1..Len(value.dump_instances) |->
                materialize_instance_dump(value.dump_instances[i], value)]
        instance_primitive_array_dump ==
            [i \in 1..Len(value.dump_primitive_array_dump) |->
                materialize_primitive_array_dump(value.dump_primitive_array_dump[i], value)]
        instance_object_array_dump ==
            [i \in 1..Len(value.dump_object_array_dump) |->
                materialize_object_array_dump(value.dump_object_array_dump[i], value)]
        all == instance \o instance_primitive_array_dump \o instance_object_array_dump
    IN  IF \E i \in 1..Len(all) : all[i].panicked
        THEN NoHeap
        ELSE [panicked |-> FALSE,
              heap |->
                [counter |-> HeapCounter(value),
                 utf8_strings |-> value.utf8_strings_by_id,
                 class_data |-> value.load_class,
                 classes_dump |-> value.classes_dump,
                 stack_frame_by_id |-> value.stack_frame_by_id,
                 stack_trace_by_serial_number |-> value.stack_trace_by_serial_number,
                 instances_pool |->
                    extend(extend(collect(instance_object_array_dump, EmptyMap),
                                  collect(instance_primitive_array_dump, EmptyMap)),
                           collect(instance, EmptyMap))]]

\* parse_instance(value): the three passes over the retained records, the
\* three maps merged into instances_pool, the aggregate moved into the Heap.
\* A panic of one closure unwinds through the parallel pass into the caller.
parse_instance(value) ==
    LET instance ==
            [i \in 1..Len(value.dump_instances) |->
                materialize_instance_dump(value.dump_instances[i], value)]
        instance_primitive_array_dump ==
            [i \in 1..Len(value.dump_primitive_array_dump) |->
                materialize_primitive_array_dump(value.dump_primitive_array_dump[i], value)]
        instance_object_array_dump ==
            [i \in 1..Len(value.dump_object_array_dump) |->
                materialize_object_array_dump(value.dump_object_array_dump[i], value)]
        all == instance \o instance_primitive_array_dump \o instance_object_array_dump
    IN  IF \E i \in 1..Len(all) : all[i].panicked
        THEN NoHeap
        ELSE [panicked |-> FALSE,
              heap |->
                [counter |-> HeapCounter(value),
                 utf8_strings |-> value.utf8_strings_by_id,
                 class_data |-> value.load_class,
                 classes_dump |-> value.classes_dump,
                 stack_frame_by_id |-> value.stack_frame_by_id,
                 stack_trace_by_serial_number |-> value.stack_trace_by_serial_number,
                 instances_pool |->
                    extend(extend(collect(instance, EmptyMap),
                                  collect(instance_primitive_array_dump, EmptyMap)),
                           collect(instance_object_array_dump, EmptyMap))]]

\* render_memory_usage has not started on a class
NoWalk == [pc |-> "idle", class_id |-> 0, parent_class_id |-> 0, size |-> 0, steps |-> 0]

(***************************************************************************)
(* State                                                                   *)
(***************************************************************************)
VARIABLES
    file,           \* the bytes of the input file
    reader_pos,     \* bytes main has read from the file
    header,         \* what slurp_header returned
    main_pc,        \* where slurp_file is
    main_result,    \* what slurp_file returned
    pb_position,    \* the progress bar
    joined,         \* the workers main has joined
    channels,       \* TRUE once the six channels exist
    pool_ch,        \* send_pooled_data -> receive_pooled_data
    data_ch,        \* send_data -> receive_data
    vec_pool_ch,    \* send_pooled_vec -> receive_pooled_vec
    records_ch,     \* send_records -> receive_records
    result_ch,      \* send_result -> receive_result
    progress_ch,    \* send_progress -> receive_progress
    pf_pc,          \* prefetcher: idle, run, send, done, error, panic
    pf_buf,         \* the chunk the prefetcher has read and not yet sent
    pf_off,         \* prefetcher: bytes of the file processed
    ps_pc,          \* parser: idle, recv_data, return_buf, recv_vec,
                    \*   send_records, send_progress, done, error, panic
    ps_chunk,       \* the chunk the parser received and has not yet released
    loop_buffer,    \* the parser's carry
    ps_vec,         \* the batch the parser has assembled and not yet sent
    processed_len,  \* parser: bytes of the file consumed
    rc_pc,          \* recorder: idle, recv, return_vec, done, panic
    rc_folded,      \* the recorder's aggregation (the records folded, in order)
    emitted,        \* history: the records the parser sent, in order
    result_sends,   \* history: how often the recorder sent itself
    failures,       \* history: the fatal errors of the workers, in order
    recorder,       \* the ResultRecorder, field by field (the fold specifications)
    overflow_checks, \* the build panics on an integer overflow (else it wraps)
    walk,           \* render_memory_usage on the recorder: the walk up the super classes
    dump_instances_before \* records of dump_instances ahead of those the state lists

vars == <<file, reader_pos, header, main_pc, main_result, pb_position, joined, channels,
          pool_ch, data_ch, vec_pool_ch, records_ch, result_ch, progress_ch,
          pf_pc, pf_buf, pf_off, ps_pc, ps_chunk, loop_buffer, ps_vec,
          processed_len, rc_pc, rc_folded, emitted, result_sends, failures,
          recorder, overflow_checks, walk, dump_instances_before>>

\* the aggregation field by field: it is folded in the fold specifications;
\* in the pipeline specifications rc_folded stands for it
fold_vars == <<recorder, overflow_checks, walk, dump_instances_before>>

main_vars == <<reader_pos, header, main_pc, main_result, pb_position, joined, channels>>
pf_vars == <<pf_pc, pf_buf, pf_off>>
ps_vars == <<ps_pc, ps_chunk, loop_buffer, ps_vec, processed_len>>
rc_vars == <<rc_pc, rc_folded>>

Workers == {"prefetcher", "parser", "recorder"}

Terminated == {"done", "error", "panic"}

\* how a fatal error ends a worker thread: it returns the error, or it panics
FailureModes == {"error", "panic"}

NoResult == [kind |-> "None", err |-> "none", heap |-> <<>>]
Ok(heap) == [kind |-> "Heap", err |-> "none", heap |-> heap]
Err(e) == [kind |-> "Err", err |-> e, heap |-> <<>>]
Panicked(msg) == [kind |-> "Panic", err |-> msg, heap |-> <<>>]

Failure(who, e, mode) == [who |-> who, err |-> e, mode |-> mode]

\* a channel end is dropped when the thread that owns it ends
PrefetcherAlive == pf_pc \notin Terminated
ParserAlive == ps_pc \notin Terminated
RecorderAlive == rc_pc \notin Terminated
MainAlive == main_pc # "done"

\* the three workers have ended
WorkersTerminated == pf_pc \in Terminated /\ ps_pc \in Terminated /\ rc_pc \in Terminated

NotRead == [err |-> "unread", header |-> NoHeader, read |-> 0]

Init ==
    /\ file \in Files
    /\ reader_pos = 0
    /\ header = NotRead
    /\ main_pc = "open"
    /\ main_result = NoResult
    /\ pb_position = 0
    /\ joined = {}
    /\ channels = FALSE
    /\ pool_ch = <<>>
    /\ data_ch = <<>>
    /\ vec_pool_ch = <<>>
    /\ records_ch = <<>>
    /\ result_ch = <<>>
    /\ progress_ch = <<>>
    /\ pf_pc = "idle"
    /\ pf_buf = <<>>
    /\ pf_off = 0
    /\ ps_pc = "idle"
    /\ ps_chunk = <<>>
    /\ loop_buffer = <<>>
    /\ ps_vec = <<>>
    /\ processed_len = 0
    /\ rc_pc = "idle"
    /\ rc_folded = <<>>
    /\ emitted = <<>>
    /\ result_sends = 0
    /\ failures = <<>>
    /\ recorder = ResultRecorder_new(ID_SIZE)
    /\ overflow_checks = FALSE
    /\ walk = NoWalk
    /\ dump_instances_before = 0

(***************************************************************************)
(* main: slurp_file                                                        *)
(***************************************************************************)
\* one chunk buffer too many is seeded
ChunkPoolSeedThree == 2 + 1

\* for _ in 0..2: the chunk buffers seeded into the pool
ChunkPoolSeed == 2

\* a second record vector is seeded
VecPoolSeedTwo == 1 + 1

\* the one record vector seeded into the record-vector pool
VecPoolSeed == 1

\* slurp_header(&mut reader) without the ?: the error is dropped
MainHeaderErrorDropped ==
    /\ main_pc = "open"
    /\ LET r == slurp_header(file)
       IN  /\ reader_pos' = r.read
           /\ header' = r
    /\ main_pc' = "start_prefetcher"
    /\ UNCHANGED <<file, fold_vars, main_result, pb_position, joined, channels, pool_ch, data_ch,
                   vec_pool_ch, records_ch, result_ch, progress_ch, pf_vars, ps_vars,
                   rc_vars, emitted, result_sends, failures>>

\* slurp_header(&mut reader)?
MainHeader ==
    /\ main_pc = "open"
    /\ LET r == slurp_header(file)
       IN  /\ reader_pos' = r.read
           /\ header' = r
           /\ IF r.err = "none"
              THEN /\ main_pc' = "start_prefetcher"
                   /\ main_result' = main_result
              ELSE /\ main_pc' = "done"
                   /\ main_result' = Err(r.err)
    /\ UNCHANGED <<file, fold_vars, pb_position, joined, channels, pool_ch, data_ch, vec_pool_ch,
                   records_ch, result_ch, progress_ch, pf_vars, ps_vars, rc_vars,
                   emitted, result_sends, failures>>

\* the six channels, the seeded chunk buffers, prefetcher.start
MainStartPrefetcher ==
    /\ main_pc = "start_prefetcher"
    /\ channels' = TRUE
    /\ pool_ch' = Rep(<<>>, ChunkPoolSeed)
    /\ pf_pc' = "run"
    /\ pf_off' = FILE_HEADER_LENGTH
    /\ main_pc' = "start_parser"
    /\ UNCHANGED <<file, fold_vars, reader_pos, header, main_result, pb_position, joined, data_ch,
                   vec_pool_ch, records_ch, result_ch, progress_ch, pf_buf, ps_vars,
                   rc_vars, emitted, result_sends, failures>>

\* the seeded record vector, the initial loop buffer, stream_parser.start
MainStartParser ==
    /\ main_pc = "start_parser"
    /\ vec_pool_ch' = vec_pool_ch \o Rep(<<>>, VecPoolSeed)
    /\ ps_pc' = "recv_data"
    /\ loop_buffer' = <<>>
    /\ processed_len' = FILE_HEADER_LENGTH
    /\ main_pc' = "start_recorder"
    /\ UNCHANGED <<file, fold_vars, reader_pos, header, main_result, pb_position, joined, channels,
                   pool_ch, data_ch, records_ch, result_ch, progress_ch, pf_vars,
                   ps_chunk, ps_vec, rc_vars, emitted, result_sends, failures>>

\* ResultRecorder::new(id_size), result_recorder.start
MainStartRecorder ==
    /\ main_pc = "start_recorder"
    /\ rc_pc' = "recv"
    /\ rc_folded' = <<>>
    /\ main_pc' = "progress"
    /\ UNCHANGED <<file, fold_vars, reader_pos, header, main_result, pb_position, joined, channels,
                   pool_ch, data_ch, vec_pool_ch, records_ch, result_ch, progress_ch,
                   pf_vars, ps_vars, emitted, result_sends, failures>>

\* while let Ok(processed) = receive_progress.recv()
MainProgress ==
    /\ main_pc = "progress"
    /\ IF progress_ch # <<>>
       THEN /\ pb_position' = Head(progress_ch)
            /\ progress_ch' = Tail(progress_ch)
            /\ main_pc' = main_pc
       ELSE /\ ~ParserAlive
            /\ main_pc' = "join_prefetcher"
            /\ UNCHANGED <<pb_position, progress_ch>>
    /\ UNCHANGED <<file, fold_vars, reader_pos, header, main_result, joined, channels,
                   pool_ch, data_ch,
                   vec_pool_ch, records_ch, result_ch, pf_vars, ps_vars, rc_vars,
                   emitted, result_sends, failures>>

\* a join that does not wait for the thread to end
MainJoin_unawaited(here, pc, who, next) ==
    /\ main_pc = here
    /\ joined' = joined \cup {who}
    /\ IF pc = "panic"
       THEN /\ main_pc' = "done"
            /\ main_result' = Err("StdThreadError")
       ELSE /\ main_pc' = next
            /\ main_result' = main_result
    /\ UNCHANGED <<file, fold_vars, reader_pos, header, pb_position, channels, pool_ch, data_ch,
                   vec_pool_ch, records_ch, result_ch, progress_ch, pf_vars, ps_vars,
                   rc_vars, emitted, result_sends, failures>>

\* thread.join().map_err(|e| StdThreadError { e })?  A join returns Err only
\* when the thread panicked; what the thread returned is dropped.
MainJoin(here, pc, who, next) ==
    /\ main_pc = here
    /\ pc \in Terminated
    /\ joined' = joined \cup {who}
    /\ IF pc = "panic"
       THEN /\ main_pc' = "done"
            /\ main_result' = Err("StdThreadError")
       ELSE /\ main_pc' = next
            /\ main_result' = main_result
    /\ UNCHANGED <<file, fold_vars, reader_pos, header, pb_position, channels, pool_ch, data_ch,
                   vec_pool_ch, records_ch, result_ch, progress_ch, pf_vars, ps_vars,
                   rc_vars, emitted, result_sends, failures>>

MainJoinPrefetcher == MainJoin("join_prefetcher", pf_pc, "prefetcher", "join_parser")

MainJoinParser == MainJoin("join_parser", ps_pc, "parser", "join_recorder")

MainJoinRecorder == MainJoin("join_recorder", rc_pc, "recorder", "recv_result")

\* receive_result.recv().expect("result channel should be alive"), then
\* Ok(parse_instance(result)): the Heap is held as the recorder it is made of
MainRecvResult ==
    /\ main_pc = "recv_result"
    /\ IF result_ch # <<>>
       THEN /\ main_result' = Ok(Head(result_ch))
            /\ result_ch' = Tail(result_ch)
       ELSE /\ ~RecorderAlive
            /\ main_result' = Panicked("result channel should be alive")
            /\ result_ch' = result_ch
    /\ pb_position' = 99
    /\ main_pc' = "done"
    /\ UNCHANGED <<file, fold_vars, reader_pos, header, joined, channels, pool_ch, data_ch,
                   vec_pool_ch,
                   records_ch, progress_ch, pf_vars, ps_vars, rc_vars, emitted,
                   result_sends, failures>>

MainStep ==
    \/ MainHeader
    \/ MainStartPrefetcher
    \/ MainStartParser
    \/ MainStartRecorder
    \/ MainProgress
    \/ MainJoinPrefetcher
    \/ MainJoinParser
    \/ MainJoinRecorder
    \/ MainRecvResult

(***************************************************************************)
(* prefetcher: PrefetchReader::start                                       *)
(***************************************************************************)
Min(a, b) == IF a < b THEN a ELSE b

\* the bytes of the next read
NextChunk == SubSeq(file, pf_off + 1, pf_off + Min(READ_BUFFER_SIZE, Len(file) - pf_off))

\* End at end of file; else take a buffer from the pool and fill it by one
\* read; end when the pool is closed.
PrefetcherRead ==
    /\ pf_pc = "run"
    /\ IF pf_off = Len(file)
       THEN /\ pf_pc' = "done"
            /\ UNCHANGED <<pf_buf, pool_ch>>
       ELSE IF pool_ch # <<>>
       THEN /\ pool_ch' = Tail(pool_ch)
            /\ pf_buf' = NextChunk
            /\ pf_pc' = "send"
       ELSE /\ ~ParserAlive
            /\ pf_pc' = "done"
            /\ UNCHANGED <<pf_buf, pool_ch>>
    /\ UNCHANGED <<file, fold_vars, main_vars, data_ch, vec_pool_ch, records_ch, result_ch,
                   progress_ch, pf_off, ps_vars, rc_vars, emitted, result_sends,
                   failures>>

\* the read fails: a fatal Io error, the prefetcher's channel ends close
PrefetcherIoError ==
    /\ pf_pc = "run"
    /\ pf_off < Len(file)
    /\ pool_ch # <<>>
    /\ pool_ch' = Tail(pool_ch)
    /\ \E mode \in FailureModes :
          /\ pf_pc' = mode
          /\ failures' = Append(failures, Failure("prefetcher", "Io", mode))
    /\ UNCHANGED <<file, fold_vars, main_vars, data_ch, vec_pool_ch, records_ch, result_ch,
                   progress_ch, pf_buf, pf_off, ps_vars, rc_vars, emitted,
                   result_sends>>

\* send the chunk; a send to a parser that is gone ends the prefetcher
PrefetcherSend ==
    /\ pf_pc = "send"
    /\ IF ParserAlive
       THEN /\ data_ch' = Append(data_ch, pf_buf)
            /\ pf_off' = pf_off + Len(pf_buf)
            /\ pf_pc' = "run"
       ELSE /\ pf_pc' = "done"
            /\ UNCHANGED <<data_ch, pf_off>>
    /\ pf_buf' = <<>>
    /\ UNCHANGED <<file, fold_vars, main_vars, pool_ch, vec_pool_ch, records_ch, result_ch,
                   progress_ch, ps_vars, rc_vars, emitted, result_sends, failures>>

PrefetcherStep == PrefetcherRead \/ PrefetcherSend

(***************************************************************************)
(* parser: HprofRecordStreamParser::start                                  *)
(***************************************************************************)
\* a fatal error of the parser: its channel ends close
ParserFails(e) ==
    \E mode \in FailureModes :
        /\ ps_pc' = mode
        /\ failures' = Append(failures, Failure("parser", e, mode))

\* WaitingForChunk: the next chunk, or end of input: EofWithEmptyCarry is
\* success, EofWithCarry is TruncatedInput
ParserRecvData ==
    /\ ps_pc = "recv_data"
    /\ IF data_ch # <<>>
       THEN /\ ps_chunk' = Head(data_ch)
            /\ data_ch' = Tail(data_ch)
            /\ ps_pc' = "return_buf"
            /\ failures' = failures
       ELSE /\ ~PrefetcherAlive
            /\ UNCHANGED <<ps_chunk, data_ch>>
            /\ IF loop_buffer = <<>>
               THEN ps_pc' = "done" /\ failures' = failures
               ELSE ParserFails("TruncatedInput")
    /\ UNCHANGED <<file, fold_vars, main_vars, pool_ch, vec_pool_ch, records_ch, result_ch,
                   progress_ch, pf_vars, loop_buffer, ps_vec, processed_len, rc_vars,
                   emitted, result_sends>>

\* carry || chunk; the consumed chunk buffer goes back to the pool (a send to
\* a prefetcher that is gone is ignored)
ParserReturnBuffer ==
    /\ ps_pc = "return_buf"
    /\ loop_buffer' = WithCarry(loop_buffer, ps_chunk)
    /\ ps_chunk' = <<>>
    /\ pool_ch' = IF PrefetcherAlive THEN Append(pool_ch, <<>>) ELSE pool_ch
    /\ ps_pc' = "recv_vec"
    /\ UNCHANGED <<file, fold_vars, main_vars, data_ch, vec_pool_ch, records_ch, result_ch,
                   progress_ch, pf_vars, ps_vec, processed_len, rc_vars, emitted,
                   result_sends, failures>>

\* a record vector from the pool, filled with the complete records of the
\* loop buffer; the partial tail is the new carry
ParserRecvVec ==
    /\ ps_pc = "recv_vec"
    /\ IF vec_pool_ch # <<>>
       THEN /\ vec_pool_ch' = Tail(vec_pool_ch)
            /\ LET r == parse_streaming(loop_buffer, processed_len, Len(file), <<>>)
               IN  IF r.err = "none"
                   THEN /\ ps_vec' = r.records
                        /\ loop_buffer' = r.rest
                        /\ processed_len' = processed_len + (Len(loop_buffer) - Len(r.rest))
                        /\ ps_pc' = "send_records"
                        /\ failures' = failures
                   ELSE /\ ParserFails(r.err)
                        /\ UNCHANGED <<ps_vec, loop_buffer, processed_len>>
       ELSE /\ ~RecorderAlive
            /\ ps_pc' = "done"
            /\ UNCHANGED <<vec_pool_ch, ps_vec, loop_buffer, processed_len, failures>>
    /\ UNCHANGED <<file, fold_vars, main_vars, pool_ch, data_ch, records_ch, result_ch,
                   progress_ch, pf_vars, ps_chunk, rc_vars, emitted, result_sends>>

\* send the batch; a send to a recorder that is gone ends the parser
ParserSendRecords ==
    /\ ps_pc = "send_records"
    /\ IF RecorderAlive
       THEN /\ records_ch' = Append(records_ch, ps_vec)
            /\ emitted' = emitted \o ps_vec
            /\ ps_pc' = "send_progress"
       ELSE /\ ps_pc' = "done"
            /\ UNCHANGED <<records_ch, emitted>>
    /\ ps_vec' = <<>>
    /\ UNCHANGED <<file, fold_vars, main_vars, pool_ch, data_ch, vec_pool_ch, result_ch,
                   progress_ch, pf_vars, ps_chunk, loop_buffer, processed_len, rc_vars,
                   result_sends, failures>>

\* progress (total bytes consumed) is published after each batch
ParserSendProgress ==
    /\ ps_pc = "send_progress"
    /\ IF MainAlive
       THEN progress_ch' = Append(progress_ch, processed_len) /\ ps_pc' = "recv_data"
       ELSE progress_ch' = progress_ch /\ ps_pc' = "done"
    /\ UNCHANGED <<file, fold_vars, main_vars, pool_ch, data_ch, vec_pool_ch, records_ch,
                   result_ch, pf_vars, ps_chunk, loop_buffer, ps_vec, processed_len,
                   rc_vars, emitted, result_sends, failures>>

ParserStep ==
    \/ ParserRecvData
    \/ ParserReturnBuffer
    \/ ParserRecvVec
    \/ ParserSendRecords
    \/ ParserSendProgress

(***************************************************************************)
(* recorder: ResultRecorder::start                                         *)
(***************************************************************************)
\* main keeps a clone of send_records until it returns
RecordsDisconnectedSenderKept == records_ch = <<>> /\ ~ParserAlive /\ ~MainAlive

\* an empty channel is taken for a closed one
RecordsDisconnectedWhenEmpty == records_ch = <<>>

\* receive_records.recv() is Err(_): the channel is empty and every sender
\* of it is dropped
RecordsDisconnected == records_ch = <<>> /\ ~ParserAlive

\* Ok(mut records) => self.record_records(&mut records)
RecorderRecv ==
    /\ rc_pc = "recv"
    /\ records_ch # <<>>
    /\ rc_folded' = record_records(rc_folded, Head(records_ch))
    /\ records_ch' = Tail(records_ch)
    /\ rc_pc' = "return_vec"
    /\ UNCHANGED <<file, fold_vars, main_vars, pool_ch, data_ch, vec_pool_ch, result_ch,
                   progress_ch, pf_vars, ps_vars, emitted, result_sends, failures>>

\* records.clear(); send_pooled_vec.send(records).unwrap(): a send to a
\* parser that is gone panics
RecorderReturnVec_send_unwrapped ==
    /\ rc_pc = "return_vec"
    /\ IF ParserAlive
       THEN /\ vec_pool_ch' = Append(vec_pool_ch, <<>>)
            /\ rc_pc' = "recv"
            /\ failures' = failures
       ELSE /\ vec_pool_ch' = vec_pool_ch
            /\ rc_pc' = "panic"
            /\ failures' = Append(failures, Failure("recorder", "SendError", "panic"))
    /\ UNCHANGED <<file, fold_vars, main_vars, pool_ch, data_ch, records_ch, result_ch,
                   progress_ch, pf_vars, ps_vars, rc_folded, emitted, result_sends>>

\* records.clear(); send_pooled_vec.send(records).unwrap_or_default()
RecorderReturnVec ==
    /\ rc_pc = "return_vec"
    /\ vec_pool_ch' = IF ParserAlive THEN Append(vec_pool_ch, <<>>) ELSE vec_pool_ch
    /\ rc_pc' = "recv"
    /\ UNCHANGED <<file, fold_vars, main_vars, pool_ch, data_ch, records_ch, result_ch,
                   progress_ch, pf_vars, ps_vars, rc_folded, emitted, result_sends,
                   failures>>

\* Err(_) => send_result.send(self).expect("channel should not be closed"); break
RecorderSendResult ==
    /\ rc_pc = "recv"
    /\ RecordsDisconnected
    /\ result_sends' = result_sends + 1
    /\ IF MainAlive
       THEN /\ result_ch' = Append(result_ch, rc_folded)
            /\ rc_pc' = "done"
            /\ failures' = failures
       ELSE /\ result_ch' = result_ch
            /\ rc_pc' = "panic"
            /\ failures' = Append(failures,
                                  Failure("recorder", "channel should not be closed", "panic"))
    /\ UNCHANGED <<file, fold_vars, main_vars, pool_ch, data_ch, vec_pool_ch, records_ch,
                   progress_ch, pf_vars, ps_vars, rc_folded, emitted>>

RecorderStep == RecorderRecv \/ RecorderReturnVec \/ RecorderSendResult

(***************************************************************************)
(* The pipeline                                                            *)
(***************************************************************************)
Next == MainStep \/ PrefetcherStep \/ PrefetcherIoError \/ ParserStep \/ RecorderStep

Spec == Init /\ [][Next]_vars

\* every thread that can take a step eventually takes one; an Io error is
\* never forced
FairSpec ==
    /\ Spec
    /\ WF_vars(MainStep)
    /\ WF_vars(PrefetcherStep)
    /\ WF_vars(ParserStep)
    /\ WF_vars(RecorderStep)

(***************************************************************************)
(* The parser alone, fed the body in chunks of any sizes                   *)
(***************************************************************************)
InitChunk ==
    /\ file \in { ValidHeaderBlock \o b : b \in Bodies }
    /\ reader_pos = FILE_HEADER_LENGTH
    /\ header = slurp_header(file)
    /\ main_pc = "progress"
    /\ main_result = NoResult
    /\ pb_position = 0
    /\ joined = {}
    /\ channels = TRUE
    /\ pool_ch = <<>>
    /\ data_ch = <<>>
    /\ vec_pool_ch = <<>>
    /\ records_ch = <<>>
    /\ result_ch = <<>>
    /\ progress_ch = <<>>
    /\ pf_pc = "run"
    /\ pf_buf = <<>>
    /\ pf_off = FILE_HEADER_LENGTH
    /\ ps_pc = "recv_data"
    /\ ps_chunk = <<>>
    /\ loop_buffer = <<>>
    /\ ps_vec = <<>>
    /\ processed_len = FILE_HEADER_LENGTH
    /\ rc_pc = "recv"
    /\ rc_folded = <<>>
    /\ emitted = <<>>
    /\ result_sends = 0
    /\ failures = <<>>
    /\ recorder = ResultRecorder_new(ID_SIZE)
    /\ overflow_checks = FALSE
    /\ walk = NoWalk
    /\ dump_instances_before = 0

\* one chunk of n >= 1 bytes goes through the parser's loop: carry || chunk,
\* the complete records drained and emitted, the tail kept
ChunkFeed ==
    /\ ps_pc = "recv_data"
    /\ pf_off < Len(file)
    /\ \E n \in 1..(Len(file) - pf_off) :
          LET chunk == SubSeq(file, pf_off + 1, pf_off + n)
              buf == WithCarry(loop_buffer, chunk)
              r == parse_streaming(buf, processed_len, Len(file), <<>>)
          IN  /\ pf_off' = pf_off + n
              /\ IF r.err = "none"
                 THEN /\ loop_buffer' = r.rest
                      /\ processed_len' = processed_len + (Len(buf) - Len(r.rest))
                      /\ emitted' = emitted \o r.records
                      /\ UNCHANGED <<ps_pc, failures>>
                 ELSE /\ ParserFails(r.err)
                      /\ UNCHANGED <<loop_buffer, processed_len, emitted>>
    /\ UNCHANGED <<file, fold_vars, main_vars, pool_ch, data_ch, vec_pool_ch, records_ch,
                   result_ch, progress_ch, pf_pc, pf_buf, ps_chunk, ps_vec, rc_vars,
                   result_sends>>

\* end of input
ChunkEof ==
    /\ ps_pc = "recv_data"
    /\ pf_off = Len(file)
    /\ IF loop_buffer = <<>>
       THEN ps_pc' = "done" /\ failures' = failures
       ELSE ParserFails("TruncatedInput")
    /\ UNCHANGED <<file, fold_vars, main_vars, pool_ch, data_ch, vec_pool_ch, records_ch,
                   result_ch, progress_ch, pf_vars, ps_chunk, loop_buffer, ps_vec,
                   processed_len, rc_vars, emitted, result_sends>>

NextChunkFeed == ChunkFeed \/ ChunkEof

SpecChunk == InitChunk /\ [][NextChunkFeed]_vars

(***************************************************************************)
(* The recorder and the materialization alone, fed records of every kind   *)
(***************************************************************************)
\* the longest record sequence folded, of records of every kind
MaxFoldLen == 2

\* the longest sequence folded of class, instance and array dumps
MaxDumpLen == 3

\* one record of every kind; two strings of one id, two LoadClass of one class
FoldRecords ==
    { Utf8String(66, "hi"), Utf8String(66, "ho"), Utf8String(1, "java/lang/Object"),
      LoadClass(LoadClassData(1, 7, 1)), LoadClass(LoadClassData(2, 7, 66)),
      StackFrame(StackFrameData(5)), StackTrace(StackTraceData(3, <<5>>)),
      StartThread(ThreadStartData(1, 100)), EndThread(1),
      GcSegment(ClassDump(ClassDumpFields(8, 0, 8, <<FieldInfo(9, "Long")>>))),
      GcSegment(InstanceDump(102, 50, <<>>)),
      GcSegment(ObjectArrayDump(200, 20, 2, Rep(0, 7) \o <<100>> \o Rep(0, 7) \o <<103>>)),
      GcSegment(PrimitiveArrayDump(300, "Short", 2, <<255, 254, 0, 5>>)) }
      \cup { Meta(k) : k \in MetaKinds }
      \cup { GcSegment(Root(k, 100)) : k \in RootKinds }

\* class 7 declared twice with different layouts, once with super class 8;
\* instances of known classes, of an unknown class, and with a body shorter
\* than the layout; arrays, two of them under the object id of another record
DumpRecords ==
    { GcSegment(ClassDump(ClassDumpFields(7, 8, 12, <<FieldInfo(2, "Int")>>))),
      GcSegment(ClassDump(ClassDumpFields(7, 0, 12,
          <<FieldInfo(2, "Int"), FieldInfo(3, "Int"), FieldInfo(4, "Int")>>))),
      GcSegment(ClassDump(ClassDumpFields(8, 0, 8, <<FieldInfo(9, "Long")>>))),
      GcSegment(ClassDump(ClassDumpFields(60, 0, 26,
          <<FieldInfo(3, "Object"), FieldInfo(4, "Double"), FieldInfo(5, "Float"),
            FieldInfo(6, "Char"), FieldInfo(7, "Short"), FieldInfo(8, "Byte"),
            FieldInfo(9, "Bool")>>))),
      GcSegment(InstanceDump(100, 7, <<0, 0, 0, 42>> \o Rep(0, 7) \o <<7>>)),
      GcSegment(InstanceDump(101, 7, <<0, 0>>)),
      GcSegment(InstanceDump(102, 50, <<>>)),
      GcSegment(InstanceDump(103, 8, Rep(255, 8))),
      GcSegment(InstanceDump(104, 60, Rep(0, 7) \o <<9>> \o Rep(0, 7) \o <<5>>
                                        \o <<0, 0, 1, 0, 1, 2, 255, 0, 200, 3>>)),
      GcSegment(ObjectArrayDump(200, 20, 2, Rep(0, 7) \o <<100>> \o Rep(0, 7) \o <<103>>)),
      GcSegment(ObjectArrayDump(300, 20, 0, <<>>)),
      GcSegment(PrimitiveArrayDump(300, "Short", 2, <<255, 254, 0, 5>>)),
      GcSegment(PrimitiveArrayDump(100, "Bool", 2, <<0, 3>>)) }

\* the record sequences fed
Feedable(records) ==
    \/ Len(records) <= MaxFoldLen /\ \A i \in 1..Len(records) : records[i] \in FoldRecords
    \/ Len(records) <= MaxDumpLen /\ \A i \in 1..Len(records) : records[i] \in DumpRecords

\* the batches of at most two records that may come next
NextBatches ==
    { batch \in UNION { [1..n -> FoldRecords \cup DumpRecords] : n \in 0..2 } :
        Feedable(rc_folded \o batch) }

\* the recorder is running on the aggregation given, the parser is about to
\* send it records; the rest of the pipeline is not part of these
\* specifications
InitHarnessLate(aggregation, before) ==
    /\ file = ValidHeaderBlock
    /\ reader_pos = FILE_HEADER_LENGTH
    /\ header = slurp_header(file)
    /\ main_pc = "progress"
    /\ main_result = NoResult
    /\ pb_position = 0
    /\ joined = {}
    /\ channels = TRUE
    /\ pool_ch = <<>>
    /\ data_ch = <<>>
    /\ vec_pool_ch = <<>>
    /\ records_ch = <<>>
    /\ result_ch = <<>>
    /\ progress_ch = <<>>
    /\ pf_pc = "done"
    /\ pf_buf = <<>>
    /\ pf_off = FILE_HEADER_LENGTH
    /\ ps_pc = "send_records"
    /\ ps_chunk = <<>>
    /\ loop_buffer = <<>>
    /\ ps_vec = <<>>
    /\ processed_len = FILE_HEADER_LENGTH
    /\ rc_pc = "recv"
    /\ rc_folded = <<>>
    /\ emitted = <<>>
    /\ result_sends = 0
    /\ failures = <<>>
    /\ recorder = aggregation
    /\ overflow_checks \in BOOLEAN
    /\ walk = NoWalk
    /\ dump_instances_before = before

\* the recorder is running on an aggregation whose vectors the state lists
\* in full
InitHarness(aggregation) == InitHarnessLate(aggregation, 0)

\* let id_size = header.size_pointers; ResultRecorder::new(id_size)
InitRecorder == InitHarness(ResultRecorder_new(slurp_header(ValidHeaderBlock).header.size_pointers))

\* one turn of the recorder's loop on the batch the parser sends next:
\* Ok(mut records) => self.record_records(&mut records), the vector cleared
\* and returned.  A panic ends the recorder thread.
RecorderFold ==
    /\ rc_pc = "recv"
    /\ ParserAlive
    /\ \E batch \in NextBatches :
          LET r == fold_records(recorder, batch, overflow_checks)
          IN  /\ recorder' = r.recorder
              /\ emitted' = emitted \o batch
              /\ rc_folded' = record_records(rc_folded, batch)
              /\ IF r.panicked
                 THEN /\ rc_pc' = "panic"
                      /\ failures' = Append(failures,
                             Failure("recorder", "attempt to add with overflow", "panic"))
                 ELSE UNCHANGED <<rc_pc, failures>>
    /\ UNCHANGED <<file, overflow_checks, walk, dump_instances_before, main_vars, pool_ch,
                   data_ch, vec_pool_ch, records_ch, result_ch, progress_ch, pf_vars, ps_vars, result_sends>>

\* the parser ends and the record channel closes: Err(_) =>
\* send_result.send(self), break
RecorderEnd ==
    /\ rc_pc = "recv"
    /\ ParserAlive
    /\ records_ch = <<>>
    /\ ps_pc' = "done"
    /\ result_ch' = Append(result_ch, recorder)
    /\ result_sends' = result_sends + 1
    /\ rc_pc' = "done"
    /\ UNCHANGED <<file, fold_vars, main_vars, pool_ch, data_ch, vec_pool_ch, records_ch,
                   progress_ch, pf_vars, ps_chunk, loop_buffer, ps_vec, processed_len,
                   rc_folded, emitted, failures>>

\* the parser ends after a panic of the recorder
ParserEndsAfterPanic ==
    /\ rc_pc = "panic"
    /\ ParserAlive
    /\ ps_pc' = "done"
    /\ UNCHANGED <<file, fold_vars, main_vars, pool_ch, data_ch, vec_pool_ch, records_ch,
                   result_ch, progress_ch, pf_vars, ps_chunk, loop_buffer, ps_vec,
                   processed_len, rc_vars, emitted, result_sends, failures>>

\* main after the workers have ended: the progress loop ends, the joins, the
\* result received, parse_instance(result).  The join of a recorder that
\* panicked returns StdThreadError; a panic in parse_instance unwinds
\* through slurp_file.
MainMaterialize ==
    /\ main_pc = "progress"
    /\ WorkersTerminated
    /\ main_pc' = "done"
    /\ pb_position' = 99
    /\ joined' = Workers
    /\ IF rc_pc = "panic"
       THEN /\ main_result' = Err("StdThreadError")
            /\ result_ch' = result_ch
       ELSE /\ result_ch # <<>>
            /\ result_ch' = Tail(result_ch)
            /\ LET result == parse_instance(Head(result_ch))
               IN  main_result' = IF result.panicked
                                  THEN Panicked("called Result::unwrap() on an Err value")
                                  ELSE Ok(result.heap)
    /\ UNCHANGED <<file, fold_vars, reader_pos, header, channels, pool_ch, data_ch,
                   vec_pool_ch, records_ch, progress_ch, pf_vars, ps_vars, rc_vars, emitted,
                   result_sends, failures>>

NextRecorder == RecorderFold \/ RecorderEnd \/ MainMaterialize

SpecRecorder == InitRecorder /\ [][NextRecorder]_vars

(***************************************************************************)
(* The recorder late in a long dump: a counter two increments from the     *)
(* end of the range of an i32                                              *)
(***************************************************************************)
\* the aggregation after n records equal to record, a record without data:
\* the counters it increments are n, everything else is as new
AfterRepeated(record, n) ==
    LET new == ResultRecorder_new(ID_SIZE)
        once == record_record(new, record)
    IN  [f \in DOMAIN new |-> IF f \in I32Counters /\ once[f] = 1 THEN n ELSE new[f]]

\* the aggregation after n InstanceDumps of one class: the counters they
\* increment are n; the n records retained are not listed in dump_instances
AfterInstanceDumps(class_object_id, n) ==
    [ResultRecorder_new(ID_SIZE) EXCEPT
        !.heap_dump_segments_all_sub_records = n,
        !.heap_dump_segments_gc_instance_dump = n,
        !.classes_all_instance_total_size_by_id =
            insert(EmptyMap, class_object_id, [number_of_instances |-> n])]

\* late in a dump of records without data, or of instances of class 51, a
\* class that no record dumps (its instances are not materialized)
InitCounterWidth ==
    \/ \E record \in {Meta("UnloadClass"), GcSegment(Root("RootUnknown", 100))} :
          InitHarness(AfterRepeated(record, I32_MAX - 1))
    \/ InitHarnessLate(AfterInstanceDumps(51, I32_MAX - 1), I32_MAX - 1)

NextCounterWidth == NextRecorder \/ ParserEndsAfterPanic

SpecCounterWidth == InitCounterWidth /\ [][NextCounterWidth]_vars

(***************************************************************************)
(* render_memory_usage: the size of the instances of a class, summed up    *)
(* its super classes                                                       *)
(***************************************************************************)
\* records folded before the rendering, at most
MaxWalkTableLen == 3

\* iterations of the loop followed
MaxWalkSteps == 4

\* class 7 below class 8, class 8 below class 7, class 7 below itself, and
\* instances of classes 7, 8 and of class 50, which is never dumped
WalkRecords ==
    { GcSegment(ClassDump(ClassDumpFields(7, 8, 12, <<FieldInfo(2, "Int")>>))),
      GcSegment(ClassDump(ClassDumpFields(8, 0, 8, <<FieldInfo(9, "Long")>>))),
      GcSegment(ClassDump(ClassDumpFields(8, 7, 8, <<FieldInfo(9, "Long")>>))),
      GcSegment(ClassDump(ClassDumpFields(7, 7, 0, <<>>))),
      GcSegment(InstanceDump(100, 7, <<0, 0, 0, 42>> \o Rep(0, 7) \o <<7>>)),
      GcSegment(InstanceDump(103, 8, Rep(255, 8))),
      GcSegment(InstanceDump(102, 50, <<>>)) }

WalkTables == UNION { [1..n -> WalkRecords] : n \in 0..MaxWalkTableLen }

\* the recorder has folded the records of a table
InitWalk ==
    \E records \in WalkTables :
        InitHarness(fold_records(ResultRecorder_new(ID_SIZE), records, FALSE).recorder)

\* the closure of render_memory_usage starts on a class that has instances:
\* classes_single_instance_size_by_id.get(class_id).unwrap()
WalkStart ==
    /\ walk.pc = "idle"
    /\ \E class_id \in DOMAIN recorder.classes_all_instance_total_size_by_id :
          IF class_id \in DOMAIN recorder.classes_single_instance_size_by_id
          THEN LET info == recorder.classes_single_instance_size_by_id[class_id]
               IN  walk' = [pc |-> "loop", class_id |-> class_id,
                            parent_class_id |-> info.super_class_object_id,
                            size |-> info.instance_size, steps |-> 0]
          ELSE walk' = [walk EXCEPT !.pc = "panic", !.class_id = class_id,
                                   !.parent_class_id = class_id]
    /\ UNCHANGED <<file, recorder, overflow_checks, dump_instances_before, main_vars,
                   pool_ch, data_ch, vec_pool_ch, records_ch, result_ch, progress_ch, pf_vars, ps_vars, rc_vars, emitted,
                   result_sends, failures>>

\* one iteration of while parent_class_id != 0 { .. get(&parent_class_id).unwrap() .. }
WalkStep ==
    /\ walk.pc = "loop"
    /\ walk.parent_class_id # 0
    /\ walk.steps < MaxWalkSteps
    /\ IF walk.parent_class_id \in DOMAIN recorder.classes_single_instance_size_by_id
       THEN LET info == recorder.classes_single_instance_size_by_id[walk.parent_class_id]
            IN  walk' = [walk EXCEPT !.size = @ + info.instance_size,
                                     !.parent_class_id = info.super_class_object_id,
                                     !.steps = @ + 1]
       ELSE walk' = [walk EXCEPT !.pc = "panic", !.steps = @ + 1]
    /\ UNCHANGED <<file, recorder, overflow_checks, dump_instances_before, main_vars,
                   pool_ch, data_ch, vec_pool_ch, records_ch, result_ch, progress_ch, pf_vars, ps_vars, rc_vars, emitted,
                   result_sends, failures>>

\* the loop ends at parent_class_id == 0: the object header and the padding
\* are added
WalkEnd ==
    /\ walk.pc = "loop"
    /\ walk.parent_class_id = 0
    /\ LET size == walk.size + (recorder.id_size + 4 + 4)
       IN  walk' = [walk EXCEPT !.pc = "done", !.size = size + (size % 8)]
    /\ UNCHANGED <<file, recorder, overflow_checks, dump_instances_before, main_vars,
                   pool_ch, data_ch, vec_pool_ch, records_ch, result_ch, progress_ch, pf_vars, ps_vars, rc_vars, emitted,
                   result_sends, failures>>

NextWalk == WalkStart \/ WalkStep \/ WalkEnd

SpecWalk == InitWalk /\ [][NextWalk]_vars

(***************************************************************************)
(* Properties                                                              *)
(***************************************************************************)
HeaderRefusals ==
    {"InvalidHprofFile", "InvalidIdSize", "UnsupportedIdSize", "InvalidHeaderSize"}

\* the body parsed in one piece: the records of the file, in file order
FileParse == parse_streaming(Drop(file, FILE_HEADER_LENGTH), FILE_HEADER_LENGTH, Len(file), <<>>)

FileRecords == FileParse.records

RECURSIVE Flatten(_)
Flatten(batches) ==
    IF batches = <<>> THEN <<>> ELSE Head(batches) \o Flatten(Tail(batches))

\* main returned a Heap after the three workers ended and were joined
ReturnedHeap ==
    /\ main_pc = "done"
    /\ main_result.kind = "Heap"
    /\ joined = Workers
    /\ pf_pc = "done" /\ ps_pc = "done" /\ rc_pc = "done"
    /\ progress_ch = <<>>
    /\ result_ch = <<>>

C2_ResultSentOnceAfterClose ==
    /\ result_sends <= 1
    /\ (rc_pc \in Terminated) <=> (result_sends = 1)
    /\ result_sends = 1 =>
          /\ ~ParserAlive
          /\ records_ch = <<>>
          /\ rc_folded = emitted
    /\ result_ch \in {<<>>, <<emitted>>}

C2_Witness ==
    /\ result_sends = 1
    /\ result_ch = <<rc_folded>>
    /\ Len(rc_folded) >= 2

\* C3: what the recorder has folded, followed by the records of the batches
\* still queued, in queue order and index order, is the sequence the parser
\* emitted, which is a prefix of the records of the file in file order; a
\* recorder that ended after a run without fatal error has folded exactly
\* the records of the file, in file order.
C3_FoldOrderIsFileOrder ==
    /\ rc_folded \o Flatten(records_ch) = emitted
    /\ IsPrefix(emitted, FileRecords)
    /\ (rc_pc = "done" /\ failures = <<>>) => rc_folded = FileRecords

C3_Witness ==
    /\ rc_pc = "done"
    /\ failures = <<>>
    /\ Len(rc_folded) >= 4
    /\ rc_folded = FileRecords

\* C4: in every reachable state at most two chunks are queued on the
\* raw-chunk channel and at most one batch on the record-batch channel.
C4_QueuesBoundedByPools ==
    /\ Len(data_ch) <= 2
    /\ Len(records_ch) <= 1

C4_Witness ==
    /\ Len(data_ch) = 2
    /\ Len(records_ch) = 1

\* chunk buffers in the pool channel, in the raw-chunk channel, being filled
\* by the prefetcher or received and not yet released by the parser (the
\* parser's own loop buffer, its carry storage, is not one of them)
ChunkBuffersInFlight ==
    Len(pool_ch) + Len(data_ch)
        + (IF pf_pc = "send" THEN 1 ELSE 0)
        + (IF ps_pc = "return_buf" THEN 1 ELSE 0)

\* record vectors in the vector pool, in the record-batch channel, being
\* sent by the parser or being folded by the recorder
RecordVecsInFlight ==
    Len(vec_pool_ch) + Len(records_ch)
        + (IF ps_pc = "send_records" THEN 1 ELSE 0)
        + (IF rc_pc = "return_vec" THEN 1 ELSE 0)

C6_ChunkBoundaryInvariance ==
    /\ IsPrefix(emitted, FileRecords)
    /\ (pf_off = Len(file) /\ FileParse.err = "none") =>
          /\ emitted = FileRecords
          /\ loop_buffer = FileParse.rest
          /\ processed_len = Len(file) - Len(FileParse.rest)

C6_Witness ==
    /\ pf_off = Len(file)
    /\ ps_pc = "done"
    /\ Len(emitted) >= 4
    /\ emitted = FileRecords

\* the first fatal error of the run: the parser's loop ended at end of
\* input with a carry
ParserEofWithCarry ==
    /\ failures # <<>>
    /\ failures[1].who = "parser"
    /\ failures[1].err = "TruncatedInput"

\* C7: a parse loop that ends at end of input with a non-empty carry makes
\* the run yield the error TruncatedInput and no Heap.
C7_TruncatedInputIsReturned ==
    (main_pc = "done" /\ ParserEofWithCarry) => main_result = Err("TruncatedInput")

\* what the 31 header bytes are: where the format string ends, the id_size
\* that follows it, and whether the timestamp ends the block
HeaderNul == FirstNul(Take(file, FILE_HEADER_LENGTH), 1)
HeaderParses == HeaderNul # 0 /\ HeaderNul + 12 <= FILE_HEADER_LENGTH
HeaderIdSize == be_u32(SubSeq(file, HeaderNul + 1, HeaderNul + 4))
HeaderBytesRemain == HeaderNul + 12 < FILE_HEADER_LENGTH

\* C8: of a file of at least 31 bytes, slurp_header returns the header only
\* when the 31 bytes parse, id_size is 8 and no byte remains; else it
\* returns InvalidHprofFile when they do not parse, InvalidIdSize when
\* id_size is neither 4 nor 8, UnsupportedIdSize when it is 4, both whether
\* or not bytes remain, and InvalidHeaderSize when id_size is 8 and bytes
\* remain.
C8_SlurpHeaderResult ==
    (main_pc # "open" /\ Len(file) >= FILE_HEADER_LENGTH) =>
        /\ (header.err = "none") <=>
              (HeaderParses /\ HeaderIdSize = 8 /\ ~HeaderBytesRemain)
        /\ header.read = FILE_HEADER_LENGTH
        /\ header.err = "none" => header.header.size_pointers = 8
        /\ ~HeaderParses => header.err = "InvalidHprofFile"
        /\ (HeaderParses /\ HeaderIdSize \notin {4, 8}) => header.err = "InvalidIdSize"
        /\ (HeaderParses /\ HeaderIdSize = 4) => header.err = "UnsupportedIdSize"
        /\ (HeaderParses /\ HeaderIdSize = 8 /\ HeaderBytesRemain) =>
              header.err = "InvalidHeaderSize"

C8_Witness ==
    /\ main_pc # "open"
    /\ HeaderParses
    /\ HeaderIdSize = 4
    /\ HeaderBytesRemain
    /\ header.err = "UnsupportedIdSize"

\* C9: when slurp_header refuses the header, slurp_file has returned that
\* error having read exactly 31 bytes, and no channel exists, no buffer is
\* seeded and no worker was started.
C9_RefusedHeaderStartsNothing ==
    header.err \in HeaderRefusals =>
        /\ main_pc = "done"
        /\ main_result = Err(header.err)
        /\ reader_pos = FILE_HEADER_LENGTH
        /\ ~channels
        /\ pool_ch = <<>> /\ vec_pool_ch = <<>>
        /\ pf_pc = "idle" /\ ps_pc = "idle" /\ rc_pc = "idle"

C9_Witness ==
    /\ header.err = "UnsupportedIdSize"
    /\ main_pc = "done"
    /\ Len(file) > FILE_HEADER_LENGTH
    /\ reader_pos = FILE_HEADER_LENGTH

\* C10: when a worker has failed fatally, main has joined the three workers
\* when it returns, and it returns the first error that occurred.
C10_JoinsAllReturnsFirstError ==
    (main_pc = "done" /\ failures # <<>>) =>
        /\ joined = Workers
        /\ main_result = Err(failures[1].err)

\* C11: once a worker has terminated early on a fatal error, dropping its
\* channel ends, in every fair run the three workers have eventually all
\* terminated, main's progress loop has ended and main has joined the three
\* workers.
C11_EarlyTerminationUnblocksAll ==
    (failures # <<>>) ~>
        (WorkersTerminated /\ main_pc \notin {"progress"} /\ joined = Workers)

\* what the code does guarantee after an early termination: the workers end,
\* none stays blocked on a receive, and main leaves the progress loop and
\* returns (at the first join that reports a panic, or after the three)
C11_NoThreadStaysBlocked ==
    (failures # <<>>) ~> (WorkersTerminated /\ main_pc = "done")

\* the sum of the counters named, of an aggregation
RECURSIVE CounterSum(_, _)
CounterSum(self, counters) ==
    IF counters = {} THEN 0
    ELSE LET c == CHOOSE x \in counters : TRUE
         IN  self[c] + CounterSum(self, counters \ {c})

\* C12: after folding any sequence of records, the sum of the tag counters
\* (the ten counters of the record kinds and, for the GcSegment records, the
\* counter of all sub-records) is the number of records folded: every
\* record increments exactly one of them by one.
C12_TagCountersSumToRecords ==
    CounterSum(recorder, TagCounters \cup {"heap_dump_segments_all_sub_records"})
        = Len(rc_folded)

\* C13: after folding any sequence of records,
\* heap_dump_segments_all_sub_records is the sum of the thirteen counters of
\* the GC sub-record kinds.
C13_AllSubRecordsIsSumOfGcCounters ==
    recorder.heap_dump_segments_all_sub_records = CounterSum(recorder, GcCounters)

C13_Witness ==
    /\ recorder.heap_dump_segments_all_sub_records = 3
    /\ recorder.heap_dump_segments_gc_class_dump = 1
    /\ recorder.heap_dump_segments_gc_instance_dump = 1
    /\ recorder.heap_dump_segments_gc_primitive_array_dump = 1
    /\ Len(rc_folded) = 3

\* C14: across every fold step, whatever the number of records folded
\* before it, no i32 counter of the recorder decreases.
C14_CountersNeverDecrease ==
    [][\A c \in I32Counters : recorder'[c] >= recorder[c]]_vars

\* the places of the Utf8String records of an id among the records folded
Utf8Places(id) ==
    { i \in 1..Len(rc_folded) : rc_folded[i].kind = "Utf8String" /\ rc_folded[i].id = id }

\* the ids of the Utf8String records folded
Utf8Ids ==
    { rc_folded[i].id : i \in { j \in 1..Len(rc_folded) : rc_folded[j].kind = "Utf8String" } }

\* the last place of a non-empty set of places
LastPlace(places) == CHOOSE i \in places : \A j \in places : j <= i

\* C15: after folding any sequence of records, utf8_strings_by_id has an
\* entry for exactly the ids of the Utf8String records folded, and the entry
\* of an id is the payload of the last Utf8String record of that id.
C15_Utf8StringsLastWins ==
    /\ DOMAIN recorder.utf8_strings_by_id = Utf8Ids
    /\ \A id \in Utf8Ids :
          recorder.utf8_strings_by_id[id] = rc_folded[LastPlace(Utf8Places(id))].str

C15_Witness ==
    /\ rc_folded = <<Utf8String(66, "hi"), Utf8String(66, "ho")>>
    /\ recorder.utf8_strings_by_id[66] = "ho"

\* slurp_file has returned a Heap
HeapReturned == main_pc = "done" /\ main_result.kind = "Heap"

\* the instances_pool of the Heap returned
Pool == main_result.heap.instances_pool

\* the retained dumps of the recorder that was sent
RetainedInstances == { recorder.dump_instances[i] : i \in 1..Len(recorder.dump_instances) }

RetainedObjectArrays ==
    { recorder.dump_object_array_dump[i] : i \in 1..Len(recorder.dump_object_array_dump) }

RetainedPrimitiveArrays ==
    { recorder.dump_primitive_array_dump[i] : i \in 1..Len(recorder.dump_primitive_array_dump) }

\* the object ids under which an array dump is retained
ArrayObjectIds == { d.object_id : d \in RetainedObjectArrays \cup RetainedPrimitiveArrays }

\* the class of the dump is a key of classes_dump
ClassKnown(d) == d.class_object_id \in DOMAIN recorder.classes_dump

\* bytes of the instance fields of a class before field i, in declared order
RECURSIVE LayoutOffset(_, _)
LayoutOffset(instance_fields, i) ==
    IF i <= 1 THEN 0
    ELSE LayoutOffset(instance_fields, i - 1) + size_of(instance_fields[i - 1].field_type)

LayoutSize(class) == LayoutOffset(class.instance_fields, Len(class.instance_fields) + 1)

\* the body of the dump holds every field its class declares
Decodable(d) == Len(d.bytes_ref) >= LayoutSize(recorder.classes_dump[d.class_object_id])

\* the entry of the pool under the object id of the instance dump is an
\* instance made of that dump
MaterializedFrom(d) ==
    /\ d.object_id \in DOMAIN Pool
    /\ Pool[d.object_id].class_object_id = d.class_object_id
    /\ Pool[d.object_id].data_size = d.data_size
    /\ Pool[d.object_id].fields = <<>> \/ Pool[d.object_id].fields[1][2].kind = "Single"

\* C16: in the Heap returned, a retained InstanceDump whose class is no key
\* of classes_dump has no instance in instances_pool, and one whose class is
\* a key has its instance there under its object id (unless an array dump
\* of the same object id took the place); a dump of an unknown class raises
\* no error: when every retained dump of a known class holds the bytes of
\* its fields, a Heap is returned.
C16_UnknownClassIsDropped ==
    /\ HeapReturned =>
          \A d \in RetainedInstances :
              /\ ~ClassKnown(d) => ~MaterializedFrom(d)
              /\ (ClassKnown(d) /\ d.object_id \notin ArrayObjectIds) => MaterializedFrom(d)
    /\ (main_pc = "done" /\ \A d \in RetainedInstances : ClassKnown(d) => Decodable(d))
          => main_result.kind = "Heap"

C16_Witness ==
    /\ HeapReturned
    /\ \E d \in RetainedInstances : ~ClassKnown(d) /\ d.object_id \notin DOMAIN Pool
    /\ \E d \in RetainedInstances : ClassKnown(d) /\ MaterializedFrom(d)

\* the bytes of field i of the class in the body of the dump
FieldBytes(d, instance_fields, i) ==
    SubSeq(d.bytes_ref,
           LayoutOffset(instance_fields, i) + 1,
           LayoutOffset(instance_fields, i) + size_of(instance_fields[i].field_type))

\* C17: the fields of a materialized instance have one entry per field of
\* the class (taken from classes_dump), in declared order and with the
\* declared name ids; the i-th value is decoded, as the declared type, from
\* the size_of(type) bytes that follow the bytes of fields 1..i-1.
C17_FieldsFollowTheLayout ==
    HeapReturned =>
        \A d \in RetainedInstances :
            (ClassKnown(d) /\ d.object_id \notin ArrayObjectIds) =>
                LET instance_fields == recorder.classes_dump[d.class_object_id].instance_fields
                    fields == Pool[d.object_id].fields
                IN  /\ Len(fields) = Len(instance_fields)
                    /\ \A i \in 1..Len(instance_fields) :
                          /\ fields[i][1] = instance_fields[i].name_id
                          /\ fields[i][2] =
                                Single(FieldValue(instance_fields[i].field_type,
                                                  decode_scalar(instance_fields[i].field_type,
                                                                FieldBytes(d, instance_fields, i))))

\* an instance of a class of seven fields, each of another type
C17_Witness ==
    /\ HeapReturned
    /\ 104 \in DOMAIN Pool
    /\ Pool[104].fields = << <<3, Single(FieldValue("Object", 9))>>,
                              <<4, Single(FieldValue("Double", 5))>>,
                              <<5, Single(FieldValue("Float", 256))>>,
                              <<6, Single(FieldValue("Char", 258))>>,
                              <<7, Single(FieldValue("Short", -256))>>,
                              <<8, Single(FieldValue("Byte", -56))>>,
                              <<9, Single(FieldValue("Bool", TRUE))>> >>

\* the longest chain of super classes followed
MaxSuperDepth == 3

\* the fields of the super-class chain of a class, decoded from the bytes
\* left after the fields of the class: nearest super class first
RECURSIVE SuperChainFields(_, _, _, _)
SuperChainFields(super_class_object_id, data_pt, classes_dump, depth) ==
    IF \/ depth = 0
       \/ super_class_object_id = 0
       \/ super_class_object_id \notin DOMAIN classes_dump
    THEN <<>>
    ELSE LET super == classes_dump[super_class_object_id]
             own == parse_fields(super.instance_fields, 1, data_pt, <<>>)
         IN  IF own.panicked
             THEN <<>>
             ELSE own.fields \o SuperChainFields(super.super_class_object_id, own.rest,
                                                 classes_dump, depth - 1)

\* C18: in the Heap returned, the super_fields of an instance whose class
\* names a super class that is a key of classes_dump are the fields of the
\* super-class chain, decoded from the bytes that follow the fields of the
\* class itself.
C18_SuperFieldsOfTheChain ==
    HeapReturned =>
        \A d \in RetainedInstances :
            (ClassKnown(d) /\ d.object_id \notin ArrayObjectIds) =>
                LET class == recorder.classes_dump[d.class_object_id]
                    rest == SubSeq(d.bytes_ref, LayoutSize(class) + 1, Len(d.bytes_ref))
                IN  Pool[d.object_id].super_fields =
                        SuperChainFields(class.super_class_object_id, rest,
                                         recorder.classes_dump, MaxSuperDepth)

\* a short body of a retained instance dump, or of a retained array dump
ShortBodyRetained ==
    \/ \E d \in RetainedInstances : ClassKnown(d) /\ ~Decodable(d)
    \/ \E d \in RetainedObjectArrays : Len(d.bytes_ref) < d.number_of_elements * ID_SIZE
    \/ \E d \in RetainedPrimitiveArrays :
           Len(d.bytes_ref) < d.number_of_elements * size_of(d.element_type)

\* C19: a retained record that fails to decode is dropped alone: slurp_file
\* still returns a Heap, with the instance of every other retained instance
\* dump of a known class.
C19_DecodeFailureDropsOneRecord ==
    (main_pc = "done" /\ rc_pc = "done" /\ ShortBodyRetained) =>
        /\ main_result.kind = "Heap"
        /\ \A d \in RetainedInstances :
              (ClassKnown(d) /\ Decodable(d) /\ d.object_id \notin ArrayObjectIds)
                  => MaterializedFrom(d)

\* the class ids the array passes give their instances: the array_class_id
\* of a retained object array, the numeric code of an element type
SyntheticArrayClasses ==
    { d.array_class_id : d \in RetainedObjectArrays } \cup { to_u64(t) : t \in FieldTypes }

\* C20: in the Heap returned, the class_object_id of every entry of
\* instances_pool is a key of classes_dump or a synthetic array class: the
\* entry of a retained object array has its array_class_id, the entry of a
\* retained primitive array (where no object array has the same object id)
\* the numeric code of an element type, and any other entry a key of
\* classes_dump.
C20_PoolClassesAreKnown ==
    HeapReturned =>
        /\ \A object_id \in DOMAIN Pool :
              Pool[object_id].class_object_id
                  \in DOMAIN main_result.heap.classes_dump \cup SyntheticArrayClasses
        /\ \A object_id \in DOMAIN Pool \ ArrayObjectIds :
              Pool[object_id].class_object_id \in DOMAIN main_result.heap.classes_dump
        /\ \A d \in RetainedObjectArrays :
              Pool[d.object_id].class_object_id
                  \in { e.array_class_id : e \in RetainedObjectArrays }
        /\ \A d \in RetainedPrimitiveArrays :
              d.object_id \notin { e.object_id : e \in RetainedObjectArrays } =>
                  Pool[d.object_id].class_object_id
                      \in { to_u64(e.element_type) : e \in RetainedPrimitiveArrays }

\* an instance of the dumped class 7 beside an object array of class 20,
\* which was never dumped
C20_Witness ==
    /\ HeapReturned
    /\ DOMAIN Pool = {100, 200}
    /\ Pool[100].class_object_id = 7 /\ 7 \in DOMAIN main_result.heap.classes_dump
    /\ Pool[200].class_object_id = 20 /\ 20 \notin DOMAIN main_result.heap.classes_dump

\* the three maps the parallel passes of parse_instance collect from the
\* retained dumps: instances, primitive arrays, object arrays
KindMaps ==
    << collect([i \in 1..Len(recorder.dump_instances) |->
                   materialize_instance_dump(recorder.dump_instances[i], recorder)], EmptyMap),
       collect([i \in 1..Len(recorder.dump_primitive_array_dump) |->
                   materialize_primitive_array_dump(recorder.dump_primitive_array_dump[i],
                                                    recorder)], EmptyMap),
       collect([i \in 1..Len(recorder.dump_object_array_dump) |->
                   materialize_object_array_dump(recorder.dump_object_array_dump[i],
                                                 recorder)], EmptyMap) >>

\* the orders in which three maps can be merged
MergeOrders == { order \in [1..3 -> 1..3] : \A i, j \in 1..3 : i # j => order[i] # order[j] }

\* the three maps merged in the order given: a key has the entry of the
\* last map of the order that holds it
MergedInOrder(maps, order) ==
    [object_id \in DOMAIN maps[1] \cup DOMAIN maps[2] \cup DOMAIN maps[3] |->
        LET holders == { i \in 1..3 : object_id \in DOMAIN maps[order[i]] }
            last == CHOOSE i \in holders : \A j \in holders : j <= i
        IN  maps[order[last]][object_id]]

\* no object id is a key of two of the three maps
Disjoint(maps) ==
    \A i, j \in 1..3 : i # j => DOMAIN maps[i] \cap DOMAIN maps[j] = {}

\* C21 as stated: the instances_pool of the Heap returned is the map that
\* every order of merging the three per-kind maps yields.
C21_EveryMergeOrderYieldsThePool ==
    HeapReturned =>
        LET maps == KindMaps
        IN  \A order \in MergeOrders : MergedInOrder(maps, order) = Pool

\* C21, amended: when no object id is in two of the three per-kind maps,
\* every order of merging them yields the instances_pool of the Heap
\* returned; in any case the pool is the merge in the order instances,
\* primitive arrays, object arrays, the later map winning a shared id.
C21_MergeOrderFreeOnDisjointIds ==
    HeapReturned =>
        LET maps == KindMaps
        IN  /\ Disjoint(maps) => \A order \in MergeOrders : MergedInOrder(maps, order) = Pool
            /\ MergedInOrder(maps, <<1, 2, 3>>) = Pool

\* an instance and a primitive array under different object ids
C21_Witness ==
    /\ HeapReturned
    /\ Disjoint(KindMaps)
    /\ DOMAIN KindMaps[1] = {100}
    /\ DOMAIN KindMaps[2] = {300}
    /\ DOMAIN Pool = {100, 300}

\* a recorder replaying the records, one by one, in order
RECURSIVE Replay(_, _)
Replay(self, records) ==
    IF records = <<>> THEN self ELSE Replay(record_record(self, Head(records)), Tail(records))

EmptyBody == Len(file) = FILE_HEADER_LENGTH /\ slurp_header(file).err = "none"

\* C23: on a valid header followed by an empty body (and no I/O error) the
\* run returns a Heap; no record was folded, and the Heap made of that
\* aggregation has every counter at 0 and every map empty.
C23_EmptyBodyGivesEmptyHeap ==
    (EmptyBody /\ main_pc = "done" /\ failures = <<>>) =>
        /\ main_result.kind = "Heap"
        /\ main_result.heap = <<>>
        /\ rc_folded = <<>>
        /\ LET made == parse_instance(Replay(ResultRecorder_new(header.header.size_pointers),
                                             rc_folded))
           IN  /\ ~made.panicked
               /\ \A c \in I32Counters : made.heap.counter[c] = 0
               /\ made.heap.utf8_strings = EmptyMap
               /\ made.heap.class_data = EmptyMap
               /\ made.heap.classes_dump = EmptyMap
               /\ made.heap.stack_trace_by_serial_number = EmptyMap
               /\ made.heap.stack_frame_by_id = EmptyMap
               /\ made.heap.instances_pool = EmptyMap

C23_Witness ==
    /\ EmptyBody
    /\ ReturnedHeap
    /\ failures = <<>>
    /\ main_result.heap = <<>>

\* the places of the LoadClass records among the records folded
LoadClassPlaces == { i \in 1..Len(rc_folded) : rc_folded[i].kind = "LoadClass" }

\* C24: after the fold, the data of every LoadClass record is stored under
\* its class_object_id unless a later LoadClass of the same class replaced
\* it, and class_data_by_serial_number has an entry for the serial number
\* of every LoadClass record folded.
C24_LoadClassStoredAndIndexed ==
    rc_pc \in {"recv", "done"} =>
        \A i \in LoadClassPlaces :
            LET data == rc_folded[i].data
                same == { j \in LoadClassPlaces :
                            rc_folded[j].data.class_object_id = data.class_object_id }
            IN  /\ data.class_object_id \in DOMAIN recorder.load_class
                /\ recorder.load_class[data.class_object_id] = rc_folded[LastPlace(same)].data
                /\ data.serial_number \in DOMAIN recorder.class_data_by_serial_number

\* the places of the sub-records of a kind among the records folded
GcPlaces(kind) ==
    { i \in 1..Len(rc_folded) : rc_folded[i].kind = "GcSegment" /\ rc_folded[i].gc.kind = kind }

\* the places of the ClassDumps of a class
ClassDumpPlaces(class_object_id) ==
    { i \in GcPlaces("ClassDump") : rc_folded[i].gc.fields.class_object_id = class_object_id }

\* the first place of a non-empty set of places
FirstPlace(places) == CHOOSE i \in places : \A j \in places : i <= j

\* C25: after the fold, classes_dump and classes_single_instance_size_by_id
\* have an entry for exactly the classes of the ClassDumps folded;
\* classes_dump holds the fields of the last ClassDump of the class,
\* classes_single_instance_size_by_id the super-class id and the instance
\* size of the first.
C25_ClassDumpLastWinsSizeFirstWins ==
    rc_pc \in {"recv", "done"} =>
        LET dumped == { rc_folded[i].gc.fields.class_object_id : i \in GcPlaces("ClassDump") }
        IN  /\ DOMAIN recorder.classes_dump = dumped
            /\ DOMAIN recorder.classes_single_instance_size_by_id = dumped
            /\ \A c \in dumped :
                  LET first == rc_folded[FirstPlace(ClassDumpPlaces(c))].gc.fields
                      last == rc_folded[LastPlace(ClassDumpPlaces(c))].gc.fields
                  IN  /\ recorder.classes_dump[c] = last
                      /\ recorder.classes_single_instance_size_by_id[c] =
                            [super_class_object_id |-> first.super_class_object_id,
                             instance_size |-> first.instance_size]

\* two ClassDumps of class 7: the first names super class 8, the second none
C25_Witness ==
    /\ Len(rc_folded) = 2
    /\ ClassDumpPlaces(7) = {1, 2}
    /\ rc_folded[1].gc.fields.super_class_object_id = 8
    /\ rc_folded[2].gc.fields.super_class_object_id = 0
    /\ recorder.classes_dump[7].super_class_object_id = 0
    /\ Len(recorder.classes_dump[7].instance_fields) = 3
    /\ recorder.classes_single_instance_size_by_id[7].super_class_object_id = 8

\* the sub-records of a kind among the records folded, in fold order
RECURSIVE GcFolded(_, _)
GcFolded(records, kind) ==
    IF records = <<>> THEN <<>>
    ELSE IF Head(records).kind = "GcSegment" /\ Head(records).gc.kind = kind
         THEN <<Head(records).gc>> \o GcFolded(Tail(records), kind)
         ELSE GcFolded(Tail(records), kind)

\* C26: after the fold, the per-class instance counter of a class is the
\* number of InstanceDumps of that class folded (a class without one has no
\* counter), whether or not the class was dumped, and dump_instances holds
\* the InstanceDumps folded, in fold order, with their ids, data_size and
\* bytes.
C26_InstancesCountedAndRetained ==
    rc_pc \in {"recv", "done"} =>
        LET dumps == GcFolded(rc_folded, "InstanceDump")
            counters == recorder.classes_all_instance_total_size_by_id
        IN  /\ DOMAIN counters = { dumps[i].class_object_id : i \in 1..Len(dumps) }
            /\ \A c \in DOMAIN counters :
                  counters[c].number_of_instances =
                      Cardinality({ i \in 1..Len(dumps) : dumps[i].class_object_id = c })
            /\ Len(recorder.dump_instances) = Len(dumps)
            /\ \A i \in 1..Len(dumps) :
                  /\ recorder.dump_instances[i].object_id = dumps[i].object_id
                  /\ recorder.dump_instances[i].class_object_id = dumps[i].class_object_id
                  /\ recorder.dump_instances[i].stack_trace_serial_number
                        = dumps[i].stack_trace_serial_number
                  /\ recorder.dump_instances[i].data_size = dumps[i].data_size
                  /\ recorder.dump_instances[i].bytes_ref = dumps[i].bytes_ref

\* two instances of class 50, which is never dumped, around one of class 8
C26_Witness ==
    /\ Len(rc_folded) = 3
    /\ recorder.classes_dump = EmptyMap
    /\ Len(recorder.dump_instances) = 3
    /\ recorder.dump_instances[1].object_id = 102
    /\ recorder.dump_instances[2].object_id = 103
    /\ recorder.dump_instances[3].object_id = 102
    /\ recorder.classes_all_instance_total_size_by_id[50].number_of_instances = 2
    /\ recorder.classes_all_instance_total_size_by_id[8].number_of_instances = 1

RECURSIVE SumOfElements(_)
SumOfElements(dumps) ==
    IF dumps = <<>> THEN 0 ELSE Head(dumps).number_of_elements + SumOfElements(Tail(dumps))

\* the counter is that of the array dumps given: their number, the sum of
\* their element counts, the largest element count
CountsArrays(counter, dumps) ==
    /\ counter.number_of_arrays = Len(dumps)
    /\ counter.total_number_of_elements = SumOfElements(dumps)
    /\ \A i \in 1..Len(dumps) : dumps[i].number_of_elements <= counter.max_size_seen
    /\ \E i \in 1..Len(dumps) : dumps[i].number_of_elements = counter.max_size_seen

\* the array dumps of one key, in fold order
RECURSIVE OfArrayClass(_, _)
OfArrayClass(dumps, array_class_id) ==
    IF dumps = <<>> THEN <<>>
    ELSE (IF Head(dumps).array_class_id = array_class_id THEN <<Head(dumps)>> ELSE <<>>)
             \o OfArrayClass(Tail(dumps), array_class_id)

RECURSIVE OfElementType(_, _)
OfElementType(dumps, element_type) ==
    IF dumps = <<>> THEN <<>>
    ELSE (IF Head(dumps).element_type = element_type THEN <<Head(dumps)>> ELSE <<>>)
             \o OfElementType(Tail(dumps), element_type)

\* C27: after the fold, object_array_counters has a counter for exactly
\* the array_class_ids of the ObjectArrayDumps folded and
\* primitive_array_counters one for exactly the element types of the
\* PrimitiveArrayDumps folded; each counts the arrays of its key, sums
\* their element counts and keeps the largest; every array dump is
\* retained in its dump vector, in fold order.
C27_ArraysCountedAndRetained ==
    rc_pc \in {"recv", "done"} =>
        LET object_arrays == GcFolded(rc_folded, "ObjectArrayDump")
            primitive_arrays == GcFolded(rc_folded, "PrimitiveArrayDump")
        IN  /\ DOMAIN recorder.object_array_counters
                  = { object_arrays[i].array_class_id : i \in 1..Len(object_arrays) }
            /\ \A c \in DOMAIN recorder.object_array_counters :
                  CountsArrays(recorder.object_array_counters[c],
                               OfArrayClass(object_arrays, c))
            /\ DOMAIN recorder.primitive_array_counters
                  = { primitive_arrays[i].element_type : i \in 1..Len(primitive_arrays) }
            /\ \A t \in DOMAIN recorder.primitive_array_counters :
                  CountsArrays(recorder.primitive_array_counters[t],
                               OfElementType(primitive_arrays, t))
            /\ recorder.dump_object_array_dump = object_arrays
            /\ recorder.dump_primitive_array_dump = primitive_arrays

\* object arrays of 2 and of 0 elements of class 20, and an array of shorts
C27_Witness ==
    /\ Len(rc_folded) = 3
    /\ Len(recorder.dump_object_array_dump) = 2
    /\ recorder.dump_object_array_dump[1].number_of_elements = 2
    /\ recorder.dump_object_array_dump[2].number_of_elements = 0
    /\ recorder.object_array_counters[20] =
          [number_of_arrays |-> 2, max_size_seen |-> 2, total_number_of_elements |-> 2]
    /\ Len(recorder.dump_primitive_array_dump) = 1
    /\ DOMAIN recorder.primitive_array_counters = {"Short"}
    /\ recorder.primitive_array_counters["Short"] =
          [number_of_arrays |-> 1, max_size_seen |-> 2, total_number_of_elements |-> 2]

\* a root sub-record, or one of the six meta records that have a counter
RootOrMeta(record) ==
    \/ record.kind \in {"UnloadClass", "AllocationSites", "HeapSummary", "ControlSettings",
                         "CpuSamples", "HeapDumpStart"}
    \/ record.kind = "GcSegment" /\ record.gc.kind \in RootKinds

\* the counters of a root or meta record: its own, and for a root the
\* count of all sub-records
OwnCounters(record) ==
    CASE record.kind = "UnloadClass" -> {"classes_unloaded"}
      [] record.kind = "AllocationSites" -> {"allocation_sites"}
      [] record.kind = "HeapSummary" -> {"heap_summaries"}
      [] record.kind = "ControlSettings" -> {"control_settings"}
      [] record.kind = "CpuSamples" -> {"cpu_samples"}
      [] record.kind = "HeapDumpStart" -> {"heap_dumps"}
      [] record.kind = "GcSegment" ->
             {"heap_dump_segments_all_sub_records",
              CASE record.gc.kind = "RootUnknown" -> "heap_dump_segments_gc_root_unknown"
                [] record.gc.kind = "RootThreadObject" ->
                       "heap_dump_segments_gc_root_thread_object"
                [] record.gc.kind = "RootJniGlobal" -> "heap_dump_segments_gc_root_jni_global"
                [] record.gc.kind = "RootJniLocal" -> "heap_dump_segments_gc_root_jni_local"
                [] record.gc.kind = "RootJavaFrame" -> "heap_dump_segments_gc_root_java_frame"
                [] record.gc.kind = "RootNativeStack" ->
                       "heap_dump_segments_gc_root_native_stack"
                [] record.gc.kind = "RootStickyClass" ->
                       "heap_dump_segments_gc_root_sticky_class"
                [] record.gc.kind = "RootThreadBlock" ->
                       "heap_dump_segments_gc_root_thread_block"
                [] record.gc.kind = "RootMonitorUsed" ->
                       "heap_dump_segments_gc_root_monitor_used"}

\* the records a step of the recorder has folded
FoldedByStep == SubSeq(rc_folded', Len(rc_folded) + 1, Len(rc_folded'))

\* C28: a step of the recorder that folds only root sub-records and meta
\* records (UnloadClass, AllocationSites, HeapSummary, ControlSettings,
\* CpuSamples, HeapDumpStart) raises, for each record, its own counter by
\* one (and heap_dump_segments_all_sub_records for a root); every other
\* counter, every map, every per-class and per-array counter and every
\* retained dump vector is as before.
C28_RootsAndMetaOnlyCount ==
    [][(/\ rc_pc = "recv" /\ rc_pc' = "recv"
        /\ Len(rc_folded') > Len(rc_folded)
        /\ \A i \in 1..Len(FoldedByStep) : RootOrMeta(FoldedByStep[i]))
       => /\ \A f \in (DOMAIN recorder) \ I32Counters : recorder'[f] = recorder[f]
          /\ \A c \in I32Counters :
                recorder'[c] = recorder[c] +
                    Cardinality({ i \in 1..Len(FoldedByStep) : c \in OwnCounters(FoldedByStep[i]) })
      ]_vars

\* a class was loaded, then an UnloadClass was folded: the class is still
\* in load_class
C28_Witness ==
    /\ Len(rc_folded) = 2
    /\ rc_folded[1].kind = "LoadClass"
    /\ rc_folded[2].kind = "UnloadClass"
    /\ recorder.classes_unloaded = 1
    /\ DOMAIN recorder.load_class = {7}

IsArrayOf(instance, d, element_type) ==
    /\ Len(instance.fields) = 1
    /\ instance.fields[1][1] = 0
    /\ instance.fields[1][2].kind = "Array"
    /\ instance.fields[1][2].value.type = element_type
    /\ Len(instance.fields[1][2].value.v) = d.number_of_elements
    /\ \A i \in 1..d.number_of_elements :
          instance.fields[1][2].value.v[i] =
              decode_scalar(element_type,
                            SubSeq(d.bytes_ref, (i - 1) * size_of(element_type) + 1,
                                   i * size_of(element_type)))
    /\ instance.super_fields = <<>>
    /\ instance.data_size = Len(d.bytes_ref)
    /\ instance.object_id = d.object_id

\* C30: in the Heap returned, every retained ObjectArrayDump has under its
\* object id an Instance that is its array of Object values, and every
\* retained PrimitiveArrayDump (whose object id no object array shares) an
\* Instance that is its array of values of its element type.
C30_ArraysMaterialized ==
    HeapReturned =>
        /\ \A d \in RetainedObjectArrays :
              d.object_id \in DOMAIN Pool /\ IsArrayOf(Pool[d.object_id], d, "Object")
        /\ \A d \in RetainedPrimitiveArrays :
              d.object_id \notin { e.object_id : e \in RetainedObjectArrays } =>
                  d.object_id \in DOMAIN Pool /\ IsArrayOf(Pool[d.object_id], d, d.element_type)

\* an array of the two references 100 and 103 and an array of the shorts
\* -2 and 5
C30_Witness ==
    /\ HeapReturned
    /\ DOMAIN Pool = {200, 300}
    /\ Pool[200].fields = << <<0, Array(ArrayValue("Object", <<100, 103>>))>> >>
    /\ Pool[200].data_size = 16
    /\ Pool[300].fields = << <<0, Array(ArrayValue("Short", <<-2, 5>>))>> >>
    /\ Pool[300].data_size = 4
    /\ Pool[300].super_fields = <<>>

\* the pool entry is the array made of a retained object array dump
FromObjectArray(instance, d) ==
    /\ IsArrayOf(instance, d, "Object")
    /\ instance.class_object_id = d.array_class_id

\* the pool entry is the array made of a retained primitive array dump
FromPrimitiveArray(instance, d) ==
    /\ IsArrayOf(instance, d, d.element_type)
    /\ instance.class_object_id = to_u64(d.element_type)

\* C31: in the Heap returned, an object id that several kinds of dump
\* carry has one entry in instances_pool, that of the kind merged last:
\* the array of an object array dump if one carries the id, else the array
\* of a primitive array dump if one carries it, else the instance of an
\* instance dump; and an id that a retained array dump carries is a key.
C31_LaterKindWinsACollision ==
    HeapReturned =>
        /\ ArrayObjectIds \subseteq DOMAIN Pool
        /\ \A object_id \in DOMAIN Pool :
              LET objects == { d \in RetainedObjectArrays : d.object_id = object_id }
                  primitives == { d \in RetainedPrimitiveArrays : d.object_id = object_id }
                  instances == { d \in RetainedInstances : d.object_id = object_id }
              IN  IF objects # {}
                  THEN \E d \in objects : FromObjectArray(Pool[object_id], d)
                  ELSE IF primitives # {}
                       THEN \E d \in primitives : FromPrimitiveArray(Pool[object_id], d)
                       ELSE \E d \in instances : ClassKnown(d) /\ MaterializedFrom(d)

\* object id 300 carried by a primitive array dump of two shorts and by an
\* object array dump of no element: the one entry under 300 is the object
\* array
C31_Witness ==
    /\ HeapReturned
    /\ Len(recorder.dump_primitive_array_dump) = 1
    /\ Len(recorder.dump_object_array_dump) = 1
    /\ recorder.dump_primitive_array_dump[1].object_id = 300
    /\ recorder.dump_object_array_dump[1].object_id = 300
    /\ DOMAIN Pool = {300}
    /\ Pool[300].fields = << <<0, Array(ArrayValue("Object", <<>>))>> >>
    /\ Pool[300].class_object_id = 20

\* C32: main takes the recorder for parse_instance only when the recorder
\* thread has sent it once and ended, no worker runs any more and the three
\* joins have returned; what it takes is the aggregation as the recorder
\* thread left it, and once the Heap is made no step of a worker follows
\* and the aggregation does not change.
C32_MaterializationAfterSendAndJoins ==
    [][ /\ (main_pc = "recv_result" /\ main_result'.kind = "Heap") =>
              /\ joined = Workers
              /\ WorkersTerminated
              /\ rc_pc = "done"
              /\ result_sends = 1
              /\ result_ch = <<rc_folded>>
              /\ main_result'.heap = rc_folded
        /\ main_result.kind = "Heap" =>
              /\ WorkersTerminated
              /\ UNCHANGED <<pf_pc, ps_pc, rc_pc, rc_folded, result_sends>>
      ]_vars

\* a Heap made of the four records of a file, after the three joins, the
\* result channel drained
C32_Witness ==
    /\ main_pc = "done"
    /\ main_result.kind = "Heap"
    /\ joined = Workers
    /\ rc_pc = "done"
    /\ result_ch = <<>>
    /\ main_result.heap = rc_folded
    /\ Len(rc_folded) = 4

\* C33: the step of the recorder that takes a batch folds all of it and
\* sends nothing; the vector goes back in a later step, empty, and every
\* vector in the record-vector pool is empty; a send to a parser that is
\* gone returns no vector and is no failure, the recorder goes on
\* receiving; it ends only by sending its result, once, with every batch
\* that was emitted folded, and after a failed send it does come to that
\* end.
C33_VecReturnedEmptyAfterFold ==
    /\ [](\A i \in 1..Len(vec_pool_ch) : vec_pool_ch[i] = <<>>)
    /\ [][ /\ (rc_pc = "recv" /\ rc_pc' = "return_vec") =>
                 /\ rc_folded' = rc_folded \o Head(records_ch)
                 /\ vec_pool_ch' = vec_pool_ch
           /\ (rc_pc # "idle" /\ Len(vec_pool_ch') > Len(vec_pool_ch)) =>
                 /\ rc_pc = "return_vec" /\ ParserAlive
                 /\ vec_pool_ch' = Append(vec_pool_ch, <<>>)
                 /\ rc_folded' = rc_folded
           /\ (rc_pc = "return_vec" /\ rc_pc' # rc_pc) =>
                 /\ rc_pc' = "recv"
                 /\ failures' = failures
                 /\ ~ParserAlive => vec_pool_ch' = vec_pool_ch
         ]_vars
    /\ [](rc_pc \in Terminated =>
            /\ result_sends = 1
            /\ records_ch = <<>>
            /\ rc_folded = emitted)
    /\ (rc_pc = "return_vec" /\ ~ParserAlive) ~> (rc_pc \in Terminated /\ result_sends = 1)

\* the recorder ended with its result sent and four records folded, no
\* thread failed, and the one record vector is in no channel: the parser had
\* ended when the recorder sent the vector back
C33_Witness ==
    /\ rc_pc = "done"
    /\ ps_pc = "done"
    /\ failures = <<>>
    /\ result_sends = 1
    /\ Len(rc_folded) = 4
    /\ vec_pool_ch = <<>>
    /\ RecordVecsInFlight = 0

\* the aggregation after the records fed as two consecutive batches cut
\* after the first i records (a batch is empty where the cut is at an end)
FoldedInBatches(self, records, i) ==
    fold_records(fold_records(self, SubSeq(records, 1, i), FALSE).recorder,
                 SubSeq(records, i + 1, Len(records)), FALSE).recorder

\* C34: the aggregation the recorder holds after the batches it was sent
\* (batches of no, one or two records) is the one a new recorder of the
\* same id_size has after the same records as a single batch, and after
\* them as two consecutive batches cut at any place, an empty batch
\* included.
C34_FoldIsBatchPartitionFree ==
    rc_pc \in {"recv", "done"} =>
        LET new == ResultRecorder_new(recorder.id_size)
        IN  /\ recorder = fold_records(new, rc_folded, FALSE).recorder
            /\ \A i \in 0..Len(rc_folded) : FoldedInBatches(new, rc_folded, i) = recorder

\* two different dumps of class 7 and a primitive array folded, the last
\* dump of the class kept
C34_Witness ==
    /\ rc_pc = "recv"
    /\ Len(rc_folded) = 3
    /\ rc_folded[1] # rc_folded[2]
    /\ recorder.heap_dump_segments_gc_class_dump = 2
    /\ DOMAIN recorder.classes_dump = {7}
    /\ recorder.classes_dump[7] = rc_folded[2].gc.fields
    /\ Len(recorder.dump_primitive_array_dump) = 1

\* C35: in the Heap returned, an InstanceDump of the stream has its
\* instance in instances_pool exactly when a ClassDump of its class is
\* somewhere in the stream, before it or after it, and the fields of the
\* instance follow the instance fields of the last ClassDump of the class
\* in the stream (an object id that an array dump carries as well is left
\* to the array).
C35_ClassDumpOrderFree ==
    HeapReturned =>
        \A k \in GcPlaces("InstanceDump") :
            LET d == rc_folded[k].gc
                dumps == ClassDumpPlaces(d.class_object_id)
            IN  d.object_id \notin ArrayObjectIds =>
                    IF dumps = {}
                    THEN d.object_id \notin DOMAIN Pool
                    ELSE LET layout == rc_folded[LastPlace(dumps)].gc.fields.instance_fields
                         IN  /\ d.object_id \in DOMAIN Pool
                             /\ Pool[d.object_id].class_object_id = d.class_object_id
                             /\ Len(Pool[d.object_id].fields) = Len(layout)
                             /\ \A i \in 1..Len(layout) :
                                   /\ Pool[d.object_id].fields[i][1] = layout[i].name_id
                                   /\ Pool[d.object_id].fields[i][2] =
                                         Single(FieldValue(layout[i].field_type,
                                                           decode_scalar(layout[i].field_type,
                                                                         FieldBytes(d, layout, i))))

\* the stream is an InstanceDump of class 7, then a ClassDump of class 7
\* with one field, then one with three fields: the instance has the three
\* fields
C35_Witness ==
    /\ HeapReturned
    /\ GcPlaces("InstanceDump") = {1}
    /\ rc_folded[1].gc.object_id = 100
    /\ ClassDumpPlaces(7) = {2, 3}
    /\ Len(rc_folded[2].gc.fields.instance_fields) = 1
    /\ Len(rc_folded[3].gc.fields.instance_fields) = 3
    /\ DOMAIN Pool = {100}
    /\ Pool[100].fields = << <<2, Single(FieldValue("Int", 42))>>,
                              <<3, Single(FieldValue("Int", 0))>>,
                              <<4, Single(FieldValue("Int", 7))>> >>

\* the object ids of the retained dumps of the three kinds
RetainedObjectIds == { d.object_id : d \in RetainedInstances } \cup ArrayObjectIds

\* C36: the Heap returned has the id_size and every counter of the
\* aggregation the recorder sent, its utf8_strings, class_data,
\* classes_dump, stack_trace_by_serial_number and stack_frame_by_id are the
\* maps utf8_strings_by_id, load_class, classes_dump,
\* stack_trace_by_serial_number and stack_frame_by_id of that aggregation,
\* and every key of instances_pool is the object id of a retained dump;
\* the step that makes the Heap changes nothing of the aggregation.
C36_HeapIsTheAggregate ==
    /\ [](HeapReturned =>
            /\ DOMAIN main_result.heap.counter = {"id_size"} \cup I32Counters
            /\ \A c \in {"id_size"} \cup I32Counters : main_result.heap.counter[c] = recorder[c]
            /\ main_result.heap.utf8_strings = recorder.utf8_strings_by_id
            /\ main_result.heap.class_data = recorder.load_class
            /\ main_result.heap.classes_dump = recorder.classes_dump
            /\ main_result.heap.stack_trace_by_serial_number = recorder.stack_trace_by_serial_number
            /\ main_result.heap.stack_frame_by_id = recorder.stack_frame_by_id
            /\ DOMAIN Pool \subseteq RetainedObjectIds)
    /\ [][main_pc' # main_pc => recorder' = recorder /\ rc_folded' = rc_folded]_vars

\* two ClassDumps of class 7, an instance of class 7 and no other retained
\* dump: the Heap counts two ClassDumps, holds one class and the instance
C36_Witness ==
    /\ HeapReturned
    /\ main_result.heap.counter["heap_dump_segments_gc_class_dump"] = 2
    /\ main_result.heap.counter["heap_dump_segments_gc_instance_dump"] = 1
    /\ main_result.heap.counter["heap_dump_segments_all_sub_records"] = 3
    /\ DOMAIN main_result.heap.classes_dump = {7}
    /\ DOMAIN Pool = {100}
    /\ RetainedObjectIds = {100}

\* a vector of which before records are not listed has n records
LenIs(vec, before, n) == n >= before /\ n - before = Len(vec)

\* the counts add up to n (no sum is formed that n does not bound)
RECURSIVE SumIs(_, _)
SumIs(counts, n) ==
    IF DOMAIN counts = {}
    THEN n = 0
    ELSE LET k == CHOOSE key \in DOMAIN counts : TRUE
         IN  /\ n >= counts[k]
             /\ SumIs([key \in DOMAIN counts \ {k} |-> counts[key]], n - counts[k])

\* C37: in every state of the recorder each retained dump vector is as long
\* as its counter says, and the counter is the sum of the per-class (or
\* per-type) counts: dump_instances with
\* heap_dump_segments_gc_instance_dump and number_of_instances,
\* dump_object_array_dump and dump_primitive_array_dump with their counters
\* and number_of_arrays.
C37_DumpVectorsMatchCounters ==
    LET instances == recorder.classes_all_instance_total_size_by_id
        objects == recorder.object_array_counters
        primitives == recorder.primitive_array_counters
    IN  /\ LenIs(recorder.dump_instances, dump_instances_before,
                 recorder.heap_dump_segments_gc_instance_dump)
        /\ SumIs([k \in DOMAIN instances |-> instances[k].number_of_instances],
                 recorder.heap_dump_segments_gc_instance_dump)
        /\ LenIs(recorder.dump_object_array_dump, 0,
                 recorder.heap_dump_segments_gc_object_array_dump)
        /\ SumIs([k \in DOMAIN objects |-> objects[k].number_of_arrays],
                 recorder.heap_dump_segments_gc_object_array_dump)
        /\ LenIs(recorder.dump_primitive_array_dump, 0,
                 recorder.heap_dump_segments_gc_primitive_array_dump)
        /\ SumIs([k \in DOMAIN primitives |-> primitives[k].number_of_arrays],
                 recorder.heap_dump_segments_gc_primitive_array_dump)

\* the classes of the ClassDumps folded
DumpedClasses == { rc_folded[i].gc.fields.class_object_id : i \in GcPlaces("ClassDump") }

\* C38: in every state of the recorder the keys of classes_dump and the
\* keys of classes_single_instance_size_by_id are the class_object_ids of
\* the ClassDumps folded so far, and no step takes a key out of either map.
C38_ClassMapsShareTheirKeys ==
    /\ [](/\ DOMAIN recorder.classes_dump = DumpedClasses
          /\ DOMAIN recorder.classes_single_instance_size_by_id = DumpedClasses)
    /\ [][ /\ DOMAIN recorder.classes_dump \subseteq DOMAIN recorder'.classes_dump
           /\ DOMAIN recorder.classes_single_instance_size_by_id
                 \subseteq DOMAIN recorder'.classes_single_instance_size_by_id
         ]_vars

\* class 7, dumped below class 8, and class 8 itself dumped, then an
\* instance of a class that is not: both maps have the keys 7 and 8
C38_Witness ==
    /\ rc_pc = "recv"
    /\ Len(rc_folded) = 3
    /\ DumpedClasses = {7, 8}
    /\ DOMAIN recorder.classes_dump = {7, 8}
    /\ DOMAIN recorder.classes_single_instance_size_by_id = {7, 8}
    /\ recorder.classes_single_instance_size_by_id[7].super_class_object_id = 8
    /\ DOMAIN recorder.classes_all_instance_total_size_by_id = {50}

====
